---- MODULE Spec2Model ----
(***************************************************************************)
(* A model of gempyor (flepiMoP): the SEIR integrator's step loop, and the *)
(* SinglePeriodModifier of gempyor/NPI/SinglePeriodModifier.py.            *)
(*                                                                         *)
(* Numbers: compartment occupancies are whole individuals (the stochastic  *)
(* mode of the integrator); modifier values and parameter cells are        *)
(* integers, 0 standing for 0.0 and 1 for 1.0.  Dates are day numbers.     *)
(***************************************************************************)
EXTENDS Integers, Sequences, FiniteSets, TLC

(***************************************************************************)
(* Bounds of the model.                                                    *)
(***************************************************************************)
\* The number of days of the integrator's time grid, D.
NDays == 3
\* The last day number a modifier's configuration can name; days count from 0.
MaxDate == 3

\* Sub-steps per day, 1/dt.
StepsPerDay == 1

(***************************************************************************)
(* Small helpers.                                                          *)
(***************************************************************************)
RECURSIVE SumOver(_, _)
\* The sum of f[x] over the finite set D.
SumOver(f, D) ==
    IF D = {} THEN 0
    ELSE LET x == CHOOSE y \in D : TRUE
         IN  f[x] + SumOver(f, D \ {x})

(***************************************************************************)
(* SEIR integrator.                                                        *)
(***************************************************************************)
\* The subpopulation set S, in geodata order.
SeirSubpops == {"s0", "s1"}

\* The compartments (dimension infection_stage).
Compartments == {"S", "E", "I", "R"}

\* The compiled transitions: source, destination, and the compartments whose
\* mobility-mixed population the rate is proportional to beyond the source
\* itself (the proportion block; empty when the rate depends on the source alone).
Transitions ==
    { [src |-> "S", dst |-> "E", prop |-> {"I"}],
      [src |-> "E", dst |-> "I", prop |-> {}],
      [src |-> "I", dst |-> "R", prop |-> {}] }

\* The days of the time grid, as positions in T.
Days == 0 .. (NDays - 1)

\* The candidate seeding events (day_index, source_c, dest_c, amount), each in one subpop.
SeedingCandidates ==
    [day : {0, 1}, src : {"S"}, dst : {"E"}, amount : {1, 2}, subpop : SeirSubpops]

\* The seeding inputs: no event, one event, or two.
SeedingInputs == { es \in SUBSET SeedingCandidates : Cardinality(es) <= 2 }

\* The candidate mobility matrices: zero diagonal, row sums within the population.
MobilityCandidates ==
    { [s \in SeirSubpops |-> [j \in SeirSubpops |-> IF s = j THEN 0 ELSE w]] : w \in 0 .. 1 }

\* The candidate populations pop(s) > 0.
PopulationInputs == [SeirSubpops -> {1, 2}]

VARIABLES
    pop,            \* pop(s)
    mobility,       \* M
    seeding,        \* the seeding events of the run
    seir_pc,        \* "idle", "run", "done", "error"
    day,            \* the day being integrated
    substep,        \* the sub-step of the day
    x,              \* the compartment vector, x[c][s]
    inc,            \* the incidence accumulated over the day, inc[c][s]
    Y               \* the trajectory: Y.prevalence[d][c][s], Y.incidence[d][c][s], days from 1

seirVars == <<pop, mobility, seeding, seir_pc, day, substep, x, inc, Y>>

\* The state of a SinglePeriodModifier and of its construction.
VARIABLES
    args,           \* the constructor's arguments
    npi_pc,         \* "new", "built", "error"; "off" when no modifier is modelled
    self,           \* the modifier object
    error,          \* the exception construction raised, "" when none
    draws,          \* the number of values construction drew from the distribution
    written,        \* what getReductionToWrite returned last, << >> when nothing
    previous,       \* the modifier that wrote loaded_df
    generation,     \* 1 for a modifier of a first run, 2 for one of a resumed run
    reduced         \* the last reduction of a parameter slab

npiVars == <<args, npi_pc, self, error, draws, written, previous, generation, reduced>>

\* The state of a Parameters object, of its construction and of its last draw.
VARIABLES
    p_args,         \* the constructor's arguments: parameter_config, ti, tf, subpop_names
    p_pc,           \* "new", "built", "error"; "off" when no Parameters is modelled
    parameters,     \* the Parameters object
    p_error,        \* the exception construction raised, "" when none
    p_draw          \* the last call of parameters_quick_draw or parameters_load

paramVars == <<p_args, p_pc, parameters, p_error, p_draw>>

\* The state of a TimeSetup and of a ModelInfo and of their construction.
VARIABLES
    mi_args,        \* the config and the arguments of ModelInfo
    mi_pc,          \* "new", "built", "error"; "off" when none is modelled
    time_setup,     \* the TimeSetup object
    modinf,         \* the ModelInfo object
    mi_error        \* the exception construction raised, "" when none

infoVars == <<mi_args, mi_pc, time_setup, modinf, mi_error>>

\* The state of the runs of the driver and of the files they write.
VARIABLES
    run,            \* run[sim_id]: the position of the run and the steps it has done
    fs,             \* fs[fname]: the content of the file at that path
    seen            \* what a reader of the artifacts has read

runVars == <<run, fs, seen>>

\* The state of one invocation of calibrate.
VARIABLES
    cal_args,       \* the command line options and whether the backend file exists
    cal_pc,         \* the statement calibrate is at; "off" when none is modelled
    cal,            \* the local variables of calibrate
    disk,           \* disk[location]: the sampler backend stored at that location
    inference,      \* gempyor_inference, the object of the parent process
    pool,           \* pool[w]: the worker process w, its copy of the object, its task
    cal_log         \* the test run, the evaluations, rmtree and set_save, in order

calVars == <<cal_args, cal_pc, cal, disk, inference, pool, cal_log>>

otherVars == <<paramVars, infoVars, runVars, calVars>>

vars == <<seirVars, npiVars, otherVars>>

NoParameters == [pnames |-> << >>]

NoDraw == [call |-> ""]

\* No Parameters object, for the specifications of the other components.
ParamIdle ==
    /\ p_args = [parameter_config |-> << >>]
    /\ p_pc = "off"
    /\ parameters = NoParameters
    /\ p_error = ""
    /\ p_draw = NoDraw

NoTimeSetup == [n_days |-> 0]

NoModelInfo == [setup_name |-> ""]

\* No ModelInfo, for the specifications of the other components.
InfoIdle ==
    /\ mi_args = [config |-> << >>]
    /\ mi_pc = "off"
    /\ time_setup = NoTimeSetup
    /\ modinf = NoModelInfo
    /\ mi_error = ""

\* No run of the driver, for the specifications of the other components.
RunIdle ==
    /\ run = << >>
    /\ fs = << >>
    /\ seen = << >>

\* No invocation of calibrate, for the specifications of the other components.
CalIdle ==
    /\ cal_args = [resume |-> FALSE]
    /\ cal_pc = "off"
    /\ cal = [error |-> ""]
    /\ disk = << >>
    /\ inference = [save |-> FALSE]
    /\ pool = << >>
    /\ cal_log = << >>

\* Initial conditions: everyone in S, so that each column sums to pop(s).
InitialConditions(p) ==
    [c \in Compartments |-> [s \in SeirSubpops |-> IF c = "S" THEN p[s] ELSE 0]]

ZeroState == [c \in Compartments |-> [s \in SeirSubpops |-> 0]]

\* The seeding events scheduled at the start of day d.
SeedingOfDay(d) == { e \in seeding : e.day = d }

\* The amount seeding moves out of compartment c in subpop s on day d.
SeedOut(d, c, s) ==
    LET ev == { e \in SeedingOfDay(d) : e.src = c /\ e.subpop = s }
    IN  SumOver([e \in ev |-> e.amount], ev)

\* (a seeding that adds one more than it removed)
SeedInMutant(d, c, s) ==
    LET ev == { e \in SeedingOfDay(d) : e.dst = c /\ e.subpop = s }
    IN  SumOver([e \in ev |-> e.amount + 1], ev)

\* The amount seeding moves into compartment c in subpop s on day d.
SeedIn(d, c, s) ==
    LET ev == { e \in SeedingOfDay(d) : e.dst = c /\ e.subpop = s }
    IN  SumOver([e \in ev |-> e.amount], ev)

\* The compartment vector after the seeding of day d: deterministic transfers.
ApplySeeding(st, d) ==
    [c \in Compartments |->
        [s \in SeirSubpops |-> st[c][s] - SeedOut(d, c, s) + SeedIn(d, c, s)]]

\* The effective exposed population of subpop s for compartment c: the subpop's
\* own occupancy plus the mobility-weighted occupancy of the others (M.x + diag.x).
Exposure(st, c, s) ==
    st[c][s] + SumOver([j \in SeirSubpops |-> mobility[s][j] * st[c][j]], SeirSubpops)

\* (a rate that ignores the exposed population)
CanFlowMutant(st, t, s) == TRUE

\* Whether transition t can move anyone in subpop s: its rate times the exposed
\* population is positive (rates are positive; a zero rate only removes flows).
CanFlow(st, t, s) ==
    \A c \in t.prop : Exposure(st, c, s) > 0

\* The numbers transition t may move in subpop s: a binomial draw with n the
\* source occupancy, which is 0 when p = 0.
FlowRange(st, t, s) ==
    IF CanFlow(st, t, s) THEN 0 .. st[t.src][s] ELSE {0}

RECURSIVE FlowFns(_, _)
\* Every assignment of a flow to each (transition, subpop) pair of ps.
FlowFns(st, ps) ==
    IF ps = {} THEN { << >> }
    ELSE LET p == CHOOSE q \in ps : TRUE
         IN  { (p :> k) @@ g : k \in FlowRange(st, p[1], p[2]),
                               g \in FlowFns(st, ps \ {p}) }

\* The flows a sub-step may draw, f[<<t, s>>].
FlowChoices(st) == FlowFns(st, Transitions \X SeirSubpops)

\* What leaves and what enters compartment c of subpop s under flows f.
FlowOut(f, c, s) ==
    LET ts == { t \in Transitions : t.src = c }
    IN  SumOver([t \in ts |-> f[<<t, s>>]], ts)

FlowIn(f, c, s) ==
    LET ts == { t \in Transitions : t.dst = c }
    IN  SumOver([t \in ts |-> f[<<t, s>>]], ts)

\* The compartment vector after the flows.
ApplyFlows(st, f) ==
    [c \in Compartments |->
        [s \in SeirSubpops |-> st[c][s] - FlowOut(f, c, s) + FlowIn(f, c, s)]]

\* The state before integration: the inputs of one run.
SeirInit ==
    /\ pop \in PopulationInputs
    /\ mobility \in MobilityCandidates
    /\ seeding \in SeedingInputs
    /\ seir_pc = "idle"
    /\ day = 0
    /\ substep = 0
    /\ x = ZeroState
    /\ inc = ZeroState
    /\ Y = [prevalence |-> << >>, incidence |-> << >>]

\* integrate: load the initial conditions.
StartIntegration ==
    /\ seir_pc = "idle"
    /\ seir_pc' = "run"
    /\ x' = InitialConditions(pop)
    /\ UNCHANGED <<pop, mobility, seeding, day, substep, inc, Y>>
    /\ UNCHANGED npiVars
    /\ UNCHANGED otherVars

\* One sub-step from day to day + dt: seeding at the start of the day, then
\* every transition's flow, incidence accumulated; the day is recorded after
\* its last sub-step.  Seeding more than the source holds is a negative
\* occupancy: IntegrationError.
SubStep ==
    /\ seir_pc = "run"
    /\ LET seeded == IF substep = 0 THEN ApplySeeding(x, day) ELSE x
       IN  IF \E c \in Compartments : \E s \in SeirSubpops : seeded[c][s] < 0
           THEN /\ seir_pc' = "error"
                /\ UNCHANGED <<day, substep, x, inc, Y>>
           ELSE \E f \in FlowChoices(seeded) :
                LET nxt  == ApplyFlows(seeded, f)
                    inc2 == [c \in Compartments |->
                               [s \in SeirSubpops |-> inc[c][s] + FlowIn(f, c, s)]]
                    last == substep + 1 = StepsPerDay
                IN  /\ x' = nxt
                    /\ inc' = IF last THEN ZeroState ELSE inc2
                    /\ substep' = IF last THEN 0 ELSE substep + 1
                    /\ day' = IF last THEN day + 1 ELSE day
                    /\ Y' = IF last
                            THEN [prevalence |-> Append(Y.prevalence, nxt),
                                  incidence  |-> Append(Y.incidence, inc2)]
                            ELSE Y
                    /\ seir_pc' = IF last /\ day + 1 = NDays THEN "done" ELSE "run"
    /\ UNCHANGED <<pop, mobility, seeding>>
    /\ UNCHANGED npiVars
    /\ UNCHANGED otherVars

\* The integrator at rest, for the specifications of the other components.
SeirIdle ==
    /\ pop = [s \in SeirSubpops |-> 1]
    /\ mobility = [s \in SeirSubpops |-> [j \in SeirSubpops |-> 0]]
    /\ seeding = {}
    /\ seir_pc = "off"
    /\ day = 0
    /\ substep = 0
    /\ x = ZeroState
    /\ inc = ZeroState
    /\ Y = [prevalence |-> << >>, incidence |-> << >>]

(***************************************************************************)
(* SinglePeriodModifier.                                                   *)
(***************************************************************************)
\* self.subpops: the subpop names, in geodata order.
Subpops == <<"a", "b", "c">>

SubpopSet == { Subpops[i] : i \in 1 .. Len(Subpops) }

\* The days a configuration can name.
Dates == 0 .. MaxDate

\* The values the configured distribution can draw.
Values == {0, 1, 2}

\* The parameter names of the scenario.
ParamNames == {"beta", "gamma", "delta"}

\* The stacked_modifier_method of each parameter: the scenarios considered.
MethodConfigs ==
    { [beta |-> "product", gamma |-> "sum", delta |-> "reduction_product"],
      [beta |-> "sum", gamma |-> "reduction_product", delta |-> "product"],
      [beta |-> "reduction_product", gamma |-> "product", delta |-> "sum"] }

\* An optional configuration field: << >> when the field does not exist.
Absent == << >>

OptionalDates == {Absent} \cup { <<d>> : d \in Dates }

\* The configured "subpop" field: absent, "all", or a list of names ("zz" is no subpop).
SubpopConfigs ==
    { [kind |-> "absent", list |-> {}],
      [kind |-> "all", list |-> {}],
      [kind |-> "list", list |-> {"a"}],
      [kind |-> "list", list |-> {"a", "b"}],
      [kind |-> "list", list |-> {"b", "c"}],
      [kind |-> "list", list |-> {"a", "zz"}],
      [kind |-> "list", list |-> {"zz"}] }

\* The configured spatial groups: none, or a list of groups.
GroupConfigs ==
    { << >>,
      << <<"a", "b">> >>,
      << <<"b", "c">> >>,
      << <<"a">>, <<"b", "c">> >>,
      << <<"a", "b", "c">> >> }

NoObject == [name |-> ""]

NoReduction == [name |-> ""]

\* The members of a sequence.
Range(q) == { q[i] : i \in 1 .. Len(q) }

RECURSIVE Flatten(_)
\* The members of the groups of a list of groups.
Flatten(gs) == IF gs = << >> THEN {} ELSE Range(Head(gs)) \cup Flatten(Tail(gs))

RECURSIVE Join(_)
\* ",".join(group)
Join(g) ==
    IF Len(g) = 0 THEN ""
    ELSE IF Len(g) = 1 THEN g[1]
    ELSE g[1] \o "," \o Join(Tail(g))

\* astype("str") of a date: day d is the ISO date d days after 2020-01-01.
DateStr(d) == "2020-01-0" \o ToString(d + 1)

\* default_value of __init__, and get_default: 0.0 under sum and reduction_product, else 1.0.
get_default(a, param) ==
    IF \/ param \in a.pnames_overlap_operation_sum
       \/ param \in a.pnames_overlap_operation_reductionprod
    THEN 0
    ELSE 1

\* self.affected_subpops: every subpop, or the configured ones that are subpops.
affected_subpops(a) ==
    IF a.npi_config.subpop.kind = "list"
    THEN a.npi_config.subpop.list \cap Range(a.subpops)
    ELSE Range(a.subpops)

\* The configured period_start_date, or modinf_ti when there is none.
ConfigStartDate(a) ==
    IF a.npi_config.period_start_date # Absent
    THEN a.npi_config.period_start_date[1]
    ELSE a.modinf_ti

\* The configured period_end_date, or modinf_tf when there is none.
ConfigEndDate(a) ==
    IF a.npi_config.period_end_date # Absent
    THEN a.npi_config.period_end_date[1]
    ELSE a.modinf_tf

\* helpers.get_spatial_groups: the configured groups, and the affected subpops
\* in no group.
get_spatial_groups(a, affected) ==
    [grouped   |-> a.npi_config.subpop_groups,
     ungrouped |-> SelectSeq(a.subpops,
                     LAMBDA s : s \in affected /\ s \notin Flatten(a.npi_config.subpop_groups))]

\* The group of subpop s, << >> when it is in none.
GroupOf(sg, s) ==
    LET is == { i \in 1 .. Len(sg.grouped) : s \in Range(sg.grouped[i]) }
    IN  IF is = {} THEN << >> ELSE sg.grouped[CHOOSE i \in is : TRUE]

\* The position of subpop s among the ungrouped, 0 when it is grouped.
UngroupedIndex(sg, s) ==
    LET is == { i \in 1 .. Len(sg.ungrouped) : sg.ungrouped[i] = s }
    IN  IF is = {} THEN 0 ELSE CHOOSE i \in is : TRUE

\* The position of subpop s's group among the groups, 0 when it is ungrouped.
GroupIndex(sg, s) ==
    LET is == { i \in 1 .. Len(sg.grouped) : s \in Range(sg.grouped[i]) }
    IN  IF is = {} THEN 0 ELSE CHOOSE i \in is : TRUE

\* The sizes of the calls of self.dist, in order: one call of size
\* len(ungrouped) when there are ungrouped subpops, then one call of size 1
\* for each group.
DistCallsMutant(sg) ==
    (IF sg.ungrouped # << >> THEN << Len(sg.ungrouped) >> ELSE << >>)
        \o [i \in 1 .. Len(sg.grouped) |-> Len(sg.grouped[i])]

DistCalls(sg) ==
    (IF sg.ungrouped # << >> THEN << Len(sg.ungrouped) >> ELSE << >>)
        \o [i \in 1 .. Len(sg.grouped) |-> 1]

RECURSIVE SumSeq(_)
SumSeq(q) == IF q = << >> THEN 0 ELSE Head(q) + SumSeq(Tail(q))

\* The number of values the calls of self.dist draw.
NumberOfDraws(sg) == SumSeq(DistCalls(sg))

\* Where in the stream of draws the call for group i starts.
GroupCallStart(sg, i) ==
    LET calls == DistCalls(sg)
        k     == (IF sg.ungrouped # << >> THEN 1 ELSE 0) + i
    IN  SumSeq(SubSeq(calls, 1, k - 1))

\* The value __createFromConfig gives subpop s from the stream of draws:
\* ungrouped subpops take the values of the first call in order, a group's
\* members each take the (first) value of the group's call times one.
DrawnValue(sg, stream, s) ==
    IF UngroupedIndex(sg, s) > 0
    THEN stream[UngroupedIndex(sg, s)]
    ELSE stream[GroupCallStart(sg, GroupIndex(sg, s)) + 1]

\* The rows of self.parameters: one for each affected subpop, in the order of
\* self.subpops, with the values given by valueOf.
ParameterRows(a, affected, valueOf) ==
    LET index == SelectSeq(a.subpops, LAMBDA s : s \in affected)
    IN  [i \in 1 .. Len(index) |->
            [subpop        |-> index[i],
             modifier_name |-> a.npi_config.key,
             start_date    |-> ConfigStartDate(a),
             end_date      |-> ConfigEndDate(a),
             parameter     |-> a.npi_config.parameter,
             value         |-> valueOf[index[i]]]]

\* __createFromConfig: affected subpops, the parameters table, spatial groups, draws.
createFromConfig(a, stream) ==
    LET affected == affected_subpops(a)
        sg       == get_spatial_groups(a, affected)
    IN  [affected_subpops |-> affected,
         spatial_groups   |-> sg,
         parameters       |-> ParameterRows(a, affected,
                                 [s \in affected |-> DrawnValue(sg, stream, s)])]

\* The rows of loaded_df of this modifier, and those with index label k.
LoadedRowsMutant(a) == a.loaded_df

LoadedRows(a) == SelectSeq(a.loaded_df, LAMBDA r : r.modifier_name = a.npi_config.key)

LoadedRowsAt(a, k) == SelectSeq(LoadedRows(a), LAMBDA r : r.subpop = k)

LoadedKeyMutant(sg, s) == s

\* The index label under which loaded_df holds the value of subpop s: the
\* subpop's name, or the joined name of its group.
LoadedKey(sg, s) ==
    IF GroupOf(sg, s) = << >> THEN s ELSE Join(GroupOf(sg, s))

\* Whether loaded_df.loc finds every label __createFromDf looks up.
LoadedKeysPresent(a) ==
    LET affected == affected_subpops(a)
        sg       == get_spatial_groups(a, affected)
    IN  \A s \in affected : LoadedRowsAt(a, LoadedKey(sg, s)) # << >>

\* __createFromDf: as __createFromConfig, the values read from loaded_df.
createFromDf(a) ==
    LET affected == affected_subpops(a)
        sg       == get_spatial_groups(a, affected)
    IN  [affected_subpops |-> affected,
         spatial_groups   |-> sg,
         parameters       |-> ParameterRows(a, affected,
                                 [s \in affected |-> LoadedRowsAt(a, LoadedKey(sg, s))[1].value])]

\* The test of __init__ that chooses __createFromDf: loaded_df is given and
\* has rows of this modifier.
UsesLoadedDf(a) ==
    /\ a.loaded_df # << >>
    /\ \E i \in 1 .. Len(a.loaded_df) : a.loaded_df[i].modifier_name = a.npi_config.key

\* The date test of __init__: the least start date before modinf_ti, or the
\* greatest end date after modinf_tf.
ExceedsGlobalDates(a, params) ==
    \/ \E i \in 1 .. Len(params) : params[i].start_date < a.modinf_ti
    \/ \E i \in 1 .. Len(params) : params[i].end_date > a.modinf_tf

\* pd.date_range(start, end): the days from start to end, none when start > end.
period_range(params) == params[1].start_date .. params[1].end_date

\* The row of the parameters table of subpop s.
RowOf(params, s) == params[CHOOSE i \in 1 .. Len(params) : params[i].subpop = s]

\* self.npi: the default everywhere, then the rows of the parameters table
\* overwritten on the period range by their values.
BuildNpiMutant(a, params) ==
    [s \in Range(a.subpops) |->
        [d \in a.modinf_ti .. a.modinf_tf |->
            IF s \in { params[i].subpop : i \in 1 .. Len(params) }
            THEN RowOf(params, s).value
            ELSE get_default(a, a.npi_config.parameter)]]

BuildNpi(a, params) ==
    [s \in Range(a.subpops) |->
        [d \in a.modinf_ti .. a.modinf_tf |->
            IF /\ s \in { params[i].subpop : i \in 1 .. Len(params) }
               /\ d \in period_range(params)
            THEN RowOf(params, s).value
            ELSE get_default(a, a.npi_config.parameter)]]

\* The object __init__ leaves, given what __createFromConfig or __createFromDf made.
Constructed(a, made) ==
    [name             |-> a.npi_config.key,
     start_date       |-> a.modinf_ti,
     end_date         |-> a.modinf_tf,
     param_name       |-> a.npi_config.parameter,
     affected_subpops |-> made.affected_subpops,
     spatial_groups   |-> made.spatial_groups,
     parameters       |-> made.parameters,
     npi              |-> BuildNpi(a, made.parameters)]

\* The rest of __init__ after the parameters table is made: an empty table
\* fails (the comparison of the empty column's minimum, or iloc[0]), dates
\* exceeding the global dates are rejected, else the npi table is filled.
FinishInit(a, made) ==
    IF made.parameters = << >>
    THEN /\ npi_pc' = "error"
         /\ error' = "EmptyParameters"
         /\ self' = NoObject
    ELSE IF ExceedsGlobalDates(a, made.parameters)
    THEN /\ npi_pc' = "error"
         /\ error' = "ValueError"
         /\ self' = NoObject
    ELSE /\ npi_pc' = "built"
         /\ error' = ""
         /\ self' = Constructed(a, made)

\* The configurations: a parameter, its method, the affected subpops, the
\* window, the spatial groups (each group made of affected subpops).
ValidGroups(subpop, groups) ==
    Flatten(groups) \subseteq
        (IF subpop.kind = "list" THEN subpop.list \cap SubpopSet ELSE SubpopSet)

NpiConfigs ==
    { c \in [key : {"Mod"}, parameter : {"beta"}, subpop : SubpopConfigs,
             period_start_date : OptionalDates, period_end_date : OptionalDates,
             subpop_groups : GroupConfigs] :
        ValidGroups(c.subpop, c.subpop_groups) }

\* The arguments of a first construction: no loaded_df.
NpiInit ==
    /\ \E c \in NpiConfigs : \E m \in MethodConfigs :
         args = [npi_config |-> c,
                 modinf_ti  |-> 1,
                 modinf_tf  |-> MaxDate - 1,
                 subpops    |-> Subpops,
                 loaded_df  |-> << >>,
                 pnames_overlap_operation_sum |-> { p \in ParamNames : m[p] = "sum" },
                 pnames_overlap_operation_reductionprod |->
                     { p \in ParamNames : m[p] = "reduction_product" }]
    /\ npi_pc = "new"
    /\ self = NoObject
    /\ error = ""
    /\ draws = 0
    /\ written = << >>
    /\ previous = NoObject
    /\ generation = 1
    /\ reduced = NoReduction

\* No modifier, for the specifications of the other components.
NpiIdle ==
    /\ args = [npi_config |-> [key |-> ""]]
    /\ npi_pc = "off"
    /\ self = NoObject
    /\ error = ""
    /\ draws = 0
    /\ written = << >>
    /\ previous = NoObject
    /\ generation = 0
    /\ reduced = NoReduction

\* __init__ when loaded_df is None or has no row of this modifier.
ConstructFromConfig ==
    /\ npi_pc = "new"
    /\ ~UsesLoadedDf(args)
    /\ LET sg == get_spatial_groups(args, affected_subpops(args))
       IN  \E stream \in [1 .. NumberOfDraws(sg) -> Values] :
             /\ draws' = NumberOfDraws(sg)
             /\ FinishInit(args, createFromConfig(args, stream))
    /\ UNCHANGED <<args, written, previous, generation, reduced>>
    /\ UNCHANGED seirVars
    /\ UNCHANGED otherVars

\* __init__ when loaded_df has rows of this modifier; loaded_df.loc raises
\* KeyError for a label it does not hold.
ConstructFromDf ==
    /\ npi_pc = "new"
    /\ UsesLoadedDf(args)
    /\ draws' = 0
    /\ IF LoadedKeysPresent(args)
       THEN FinishInit(args, createFromDf(args))
       ELSE /\ npi_pc' = "error"
            /\ error' = "KeyError"
            /\ self' = NoObject
    /\ UNCHANGED <<args, written, previous, generation, reduced>>
    /\ UNCHANGED seirVars
    /\ UNCHANGED otherVars

\* (a frame that keeps the rows of the grouped subpops)
ReductionToWriteMutant(obj) ==
    LET sg    == obj.spatial_groups
        asRow(r, k) == [subpop        |-> k,
                        modifier_name |-> r.modifier_name,
                        parameter     |-> r.parameter,
                        start_date    |-> DateStr(r.start_date),
                        end_date      |-> DateStr(r.end_date),
                        value         |-> r.value]
    IN  [i \in 1 .. Len(obj.parameters) |-> asRow(obj.parameters[i], obj.parameters[i].subpop)]
        \o [i \in 1 .. Len(sg.grouped) |->
              asRow(RowOf(obj.parameters, sg.grouped[i][1]), Join(sg.grouped[i]))]

\* getReductionToWrite: the rows of the ungrouped subpops, then one row for
\* each group, that of its first subpop under the joined name; dates as strings.
ReductionToWrite(obj) ==
    LET sg    == obj.spatial_groups
        asRow(r, k) == [subpop        |-> k,
                        modifier_name |-> r.modifier_name,
                        parameter     |-> r.parameter,
                        start_date    |-> DateStr(r.start_date),
                        end_date      |-> DateStr(r.end_date),
                        value         |-> r.value]
        ungroupedRows == SelectSeq(obj.parameters, LAMBDA r : r.subpop \in Range(sg.ungrouped))
    IN  [i \in 1 .. Len(ungroupedRows) |-> asRow(ungroupedRows[i], ungroupedRows[i].subpop)]
        \o [i \in 1 .. Len(sg.grouped) |->
              asRow(RowOf(obj.parameters, sg.grouped[i][1]), Join(sg.grouped[i]))]

getReductionToWrite ==
    /\ npi_pc = "built"
    /\ written = << >>
    /\ written' = ReductionToWrite(self)
    /\ UNCHANGED <<args, npi_pc, self, error, draws, previous, generation, reduced>>
    /\ UNCHANGED seirVars
    /\ UNCHANGED otherVars

\* A row of another modifier in the persisted snpi frame.
ForeignRow ==
    [subpop |-> "a", modifier_name |-> "Other", parameter |-> "gamma",
     start_date |-> DateStr(0), end_date |-> DateStr(0), value |-> 2]

\* A date of the configuration moved by k days, an absent one left absent.
ShiftDate(od, k) == IF od = Absent THEN Absent ELSE << od[1] + k >>

\* A resumed run: a modifier is constructed anew with the persisted frame as
\* loaded_df (alone, or after the rows of another modifier), under a
\* configuration whose window may have moved by a day and whose subpop field
\* may have become "all".
Resume ==
    /\ npi_pc = "built"
    /\ generation = 1
    /\ written # << >>
    /\ \E k \in {0, 1} : \E toAll \in BOOLEAN : \E foreign \in BOOLEAN :
         LET c  == args.npi_config
             c2 == [c EXCEPT !.period_start_date = ShiftDate(@, k),
                             !.period_end_date = ShiftDate(@, k),
                             !.subpop = IF toAll THEN [kind |-> "all", list |-> {}] ELSE @]
         IN  /\ c2.period_start_date \in OptionalDates
             /\ c2.period_end_date \in OptionalDates
             /\ args' = [args EXCEPT !.npi_config = c2,
                                     !.loaded_df =
                                         (IF foreign THEN << ForeignRow >> ELSE << >>)
                                             \o written]
    /\ previous' = self
    /\ self' = NoObject
    /\ npi_pc' = "new"
    /\ generation' = 2
    /\ written' = << >>
    /\ draws' = 0
    /\ UNCHANGED <<error, reduced>>
    /\ UNCHANGED seirVars
    /\ UNCHANGED otherVars

NpiNext == ConstructFromConfig \/ ConstructFromDf \/ getReductionToWrite \/ Resume

InitNPI == SeirIdle /\ ParamIdle /\ InfoIdle /\ RunIdle /\ CalIdle /\ NpiInit

SpecNPI == InitNPI /\ [][NpiNext]_vars

(***************************************************************************)
(* Reduction of a parameter slab by the modifier.                          *)
(***************************************************************************)
\* The stacked_modifier_method of parameter p, as the two lists give it.
MethodOf(a, p) ==
    IF p \in a.pnames_overlap_operation_sum THEN "sum"
    ELSE IF p \in a.pnames_overlap_operation_reductionprod THEN "reduction_product"
    ELSE "product"

\* getReduction: the npi table for the modifier's own parameter, else the default.
getReduction(obj, a, param) ==
    IF param = obj.param_name
    THEN [s \in Range(a.subpops) |-> [d \in a.modinf_ti .. a.modinf_tf |-> obj.npi[s][d]]]
    ELSE [s \in Range(a.subpops) |-> [d \in a.modinf_ti .. a.modinf_tf |-> get_default(a, param)]]

\* The method's formula for one cell: product and reduction_product multiply
\* by one minus the reduction, sum adds it.
CombineCell(cell, m, method) ==
    IF method = "sum" THEN cell + m ELSE cell * (1 - m)

\* The slab of parameter name, indexed (day, subpop), after the reduction
\* getReduction returns is combined with it.
ReduceSlab(obj, a, name, slab) ==
    LET m == getReduction(obj, a, name)
    IN  [d \in a.modinf_ti .. a.modinf_tf |->
            [s \in Range(a.subpops) |-> CombineCell(slab[d][s], m[s][d], MethodOf(a, name))]]

\* The position of subpop s in self.subpops.
SubpopIndex(a, s) == CHOOSE i \in 1 .. Len(a.subpops) : a.subpops[i] = s

\* The slabs reduced: a constant one (a fixed or drawn parameter) and one that
\* differs in every cell (a time series).
SlabInputs(a) ==
    { [d \in a.modinf_ti .. a.modinf_tf |-> [s \in Range(a.subpops) |-> 2]],
      [d \in a.modinf_ti .. a.modinf_tf |->
          [s \in Range(a.subpops) |-> 10 * d + SubpopIndex(a, s)]] }

\* parameters_reduce, for one parameter: its slab is replaced by the reduced one.
parameters_reduce ==
    /\ npi_pc = "built"
    /\ reduced = NoReduction
    /\ \E name \in ParamNames : \E slab \in SlabInputs(args) :
         reduced' = [name |-> name, slab |-> slab,
                     out |-> ReduceSlab(self, args, name, slab)]
    /\ UNCHANGED <<args, npi_pc, self, error, draws, written, previous, generation>>
    /\ UNCHANGED seirVars
    /\ UNCHANGED otherVars

ReduceNext == ConstructFromConfig \/ parameters_reduce

SpecReduce == InitNPI /\ [][ReduceNext]_vars

SeirNext == StartIntegration \/ SubStep

InitSEIR == NpiIdle /\ ParamIdle /\ InfoIdle /\ RunIdle /\ CalIdle /\ SeirInit

SpecSEIR == InitSEIR /\ [][SeirNext]_vars

(***************************************************************************)
(* Properties of the integrator.                                           *)
(***************************************************************************)
\* The sum over all compartments of row d of the prevalence trajectory, in subpop s.
PrevalenceSum(d, s) ==
    SumOver([c \in Compartments |-> Y.prevalence[d][c][s]], Compartments)

\* C1: population conservation. On every day written to the trajectory and in
\* every subpop, the prevalence summed over all compartments is pop(s), and so
\* the total over all subpops is the total population, whatever the seeding
\* events and the flows drawn.
C1_PopulationConserved ==
    \A d \in 1 .. Len(Y.prevalence) :
        /\ \A s \in SeirSubpops : PrevalenceSum(d, s) = pop[s]
        /\ SumOver([s \in SeirSubpops |-> PrevalenceSum(d, s)], SeirSubpops)
              = SumOver(pop, SeirSubpops)

\* C1's case: a finished run with two seeding events in which people moved on to R.
C1_Witness ==
    /\ seir_pc = "done"
    /\ Cardinality(seeding) = 2
    /\ Len(Y.prevalence) = NDays
    /\ \E s \in SeirSubpops : Y.prevalence[NDays]["R"][s] > 0
    /\ \E s \in SeirSubpops : Y.prevalence[1]["E"][s] > 0

MobilityZero == \A s \in SeirSubpops : \A j \in SeirSubpops : mobility[s][j] = 0

\* C2: no spread. With a mobility matrix that is zero everywhere and seeding in
\* subpop s0 only, the prevalence of R on the final day is 0 in every other
\* subpop, in every run.
C2_NoSpread ==
    \A s0 \in SeirSubpops :
        ( /\ MobilityZero
          /\ \A e \in seeding : e.subpop = s0
          /\ Len(Y.prevalence) = NDays )
        => \A s \in SeirSubpops \ {s0} : Y.prevalence[NDays]["R"][s] = 0

\* C2's case: zero mobility, seeding in s0 alone, and the epidemic ran its
\* course there: R is positive in s0 on the final day.
C2_Witness ==
    /\ seir_pc = "done"
    /\ MobilityZero
    /\ seeding # {}
    /\ \A e \in seeding : e.subpop = "s0"
    /\ Y.prevalence[NDays]["R"]["s0"] > 0
    /\ Y.prevalence[NDays]["R"]["s1"] = 0

(***************************************************************************)
(* Properties of SinglePeriodModifier.                                     *)
(***************************************************************************)
\* The value the parameters table holds for subpop s.
ValueOf(s) == RowOf(self.parameters, s).value

\* The configured groups and the affected subpops outside them.
ConfiguredGroups == args.npi_config.subpop_groups

UngroupedAffected == affected_subpops(args) \ Flatten(ConfiguredGroups)

\* The days of the simulation, [ti, tf].
GlobalDays == args.modinf_ti .. args.modinf_tf

\* C3: the npi table of a constructed modifier has one row per subpop and one
\* column per day of [ti, tf]; a cell holds the subpop's value when the subpop
\* is affected and the day lies in the window, and otherwise the default,
\* which is 1 under product and 0 under sum and reduction_product.
C3_NpiTable ==
    npi_pc = "built" =>
        /\ DOMAIN self.npi = SubpopSet
        /\ \A s \in SubpopSet :
             /\ DOMAIN self.npi[s] = GlobalDays
             /\ \A d \in GlobalDays :
                  self.npi[s][d] =
                      IF /\ s \in affected_subpops(args)
                         /\ ConfigStartDate(args) <= d
                         /\ d <= ConfigEndDate(args)
                      THEN ValueOf(s)
                      ELSE IF MethodOf(args, args.npi_config.parameter) = "product"
                           THEN 1 ELSE 0

\* C3's case: a modifier of a sum parameter, a window shorter than [ti, tf],
\* an affected subpop with value 2 and an unaffected one.
C3_Witness ==
    /\ npi_pc = "built"
    /\ MethodOf(args, args.npi_config.parameter) = "sum"
    /\ ConfigStartDate(args) = ConfigEndDate(args)
    /\ \E s \in affected_subpops(args) : ValueOf(s) = 2
    /\ affected_subpops(args) # SubpopSet

\* C4: no modifier is constructed whose window escapes [ti, tf]: both
\* period_start_date and period_end_date of a constructed modifier lie in [ti, tf].
C4_WindowWithinGlobalDates ==
    npi_pc = "built" =>
        \A i \in 1 .. Len(self.parameters) :
            /\ self.parameters[i].start_date \in GlobalDays
            /\ self.parameters[i].end_date \in GlobalDays

\* C7: after construction from the configuration the subpops of one spatial
\* group carry one value, in the parameters table and in their npi rows, and
\* one value is drawn for each group and one for each ungrouped subpop.
C7_OneDrawPerGroup ==
    (npi_pc = "built" /\ ~UsesLoadedDf(args)) =>
        /\ \A i \in 1 .. Len(ConfiguredGroups) :
             \A s \in Range(ConfiguredGroups[i]) : \A u \in Range(ConfiguredGroups[i]) :
                /\ ValueOf(s) = ValueOf(u)
                /\ \A d \in GlobalDays : self.npi[s][d] = self.npi[u][d]
                /\ \A d \in GlobalDays :
                     (ConfigStartDate(args) <= d /\ d <= ConfigEndDate(args))
                        => self.npi[s][d] = ValueOf(s)
        /\ draws = Cardinality(UngroupedAffected) + Len(ConfiguredGroups)

\* C7's case: a group of two with value 2 and an ungrouped subpop with value 0.
C7_Witness ==
    /\ npi_pc = "built"
    /\ ~UsesLoadedDf(args)
    /\ ConfiguredGroups = << <<"a", "b">> >>
    /\ UngroupedAffected = {"c"}
    /\ ValueOf("a") = 2
    /\ ValueOf("c") = 0
    /\ draws = 2
    /\ ConfigStartDate(args) <= ConfigEndDate(args)

\* The rows of loaded_df that carry the modifier's name and the index label k.
C8_LoadedAt(k) ==
    { i \in 1 .. Len(args.loaded_df) :
        /\ args.loaded_df[i].modifier_name = args.npi_config.key
        /\ args.loaded_df[i].subpop = k }

\* C8: a modifier constructed from a loaded_df with rows of its name takes
\* each ungrouped subpop's value from the row of that subpop and each group's
\* value from the row of the joined group name, draws nothing, and takes its
\* dates from the configuration (ti and tf when it gives none), whatever the
\* dates of loaded_df.
C8_RestoredFromLoadedDf ==
    (npi_pc = "built" /\ UsesLoadedDf(args)) =>
        /\ \A s \in UngroupedAffected :
             /\ C8_LoadedAt(s) # {}
             /\ \A i \in C8_LoadedAt(s) : ValueOf(s) = args.loaded_df[i].value
        /\ \A g \in 1 .. Len(ConfiguredGroups) :
             /\ C8_LoadedAt(Join(ConfiguredGroups[g])) # {}
             /\ \A i \in C8_LoadedAt(Join(ConfiguredGroups[g])) :
                  \A s \in Range(ConfiguredGroups[g]) : ValueOf(s) = args.loaded_df[i].value
        /\ draws = 0
        /\ \A i \in 1 .. Len(self.parameters) :
             /\ self.parameters[i].start_date =
                  (IF args.npi_config.period_start_date = Absent
                   THEN args.modinf_ti ELSE args.npi_config.period_start_date[1])
             /\ self.parameters[i].end_date =
                  (IF args.npi_config.period_end_date = Absent
                   THEN args.modinf_tf ELSE args.npi_config.period_end_date[1])

\* C8's case: a resumed modifier with a group and an ungrouped subpop, whose
\* configured window is a day later than the one loaded_df stores.
C8_Witness ==
    /\ npi_pc = "built"
    /\ UsesLoadedDf(args)
    /\ ConfiguredGroups = << <<"a", "b">> >>
    /\ UngroupedAffected = {"c"}
    /\ ValueOf("a") = 1
    /\ ValueOf("c") = 0
    /\ args.npi_config.period_start_date = <<2>>
    /\ \E i \in C8_LoadedAt("c") : args.loaded_df[i].start_date = DateStr(1)

\* The rows of the written frame with index label k.
C9_WrittenAt(k) == { i \in 1 .. Len(written) : written[i].subpop = k }

\* Whether written row w carries what the parameters table holds for subpop s.
C9_Carries(w, s) ==
    LET r == RowOf(self.parameters, s)
    IN  /\ w.modifier_name = r.modifier_name
        /\ w.parameter = r.parameter
        /\ w.value = r.value
        /\ w.start_date = DateStr(r.start_date)
        /\ w.end_date = DateStr(r.end_date)

\* C9: getReductionToWrite returns one row for each ungrouped affected subpop
\* and one for each spatial group and no other; a group's row has the joined
\* names of its members as label and carries the modifier name, parameter,
\* dates and value of the group's first subpop; a grouped subpop has no row
\* of its own; dates are written as strings.
C9_WrittenRows ==
    (npi_pc = "built" /\ written # << >>) =>
        /\ Len(written) = Cardinality(UngroupedAffected) + Len(ConfiguredGroups)
        /\ \A s \in UngroupedAffected :
             /\ Cardinality(C9_WrittenAt(s)) = 1
             /\ \A i \in C9_WrittenAt(s) : C9_Carries(written[i], s)
        /\ \A g \in 1 .. Len(ConfiguredGroups) :
             /\ Cardinality(C9_WrittenAt(Join(ConfiguredGroups[g]))) = 1
             /\ \A i \in C9_WrittenAt(Join(ConfiguredGroups[g])) :
                  C9_Carries(written[i], ConfiguredGroups[g][1])
        /\ \A s \in Flatten(ConfiguredGroups) :
             \A i \in C9_WrittenAt(s) :
                \E g \in 1 .. Len(ConfiguredGroups) : Join(ConfiguredGroups[g]) = s
        /\ \A i \in 1 .. Len(written) :
             /\ written[i].start_date \in { DateStr(d) : d \in Dates }
             /\ written[i].end_date \in { DateStr(d) : d \in Dates }

\* C9's case: the frame of a modifier with a group of two and an ungrouped subpop.
C9_Witness ==
    /\ npi_pc = "built"
    /\ Len(written) = 2
    /\ ConfiguredGroups = << <<"b", "c">> >>
    /\ UngroupedAffected = {"a"}
    /\ written[1].subpop = "a"
    /\ written[2].subpop = "b,c"
    /\ written[2].value = 2
    /\ written[1].value = 1

\* C10: every constructed modifier has start_date <= end_date in every row of
\* its parameters table (a configuration with period_start_date after
\* period_end_date is rejected).
C10_StartNotAfterEnd ==
    npi_pc = "built" =>
        \A i \in 1 .. Len(self.parameters) :
            self.parameters[i].start_date <= self.parameters[i].end_date

(***************************************************************************)
(* Properties of the reduction.                                            *)
(***************************************************************************)
\* Whether every affected subpop drew value v.
AllValues(v) == \A s \in affected_subpops(args) : ValueOf(s) = v

\* C5: under product, with a window inside [ti, tf], a drawn value of 0 makes
\* the reduction leave every cell of the parameter's slab unchanged, and a
\* drawn value of 1 makes the slab 0 in the cells of the window of the
\* affected subpops and leaves every other cell unchanged.
C5_ProductIdentity ==
    ( /\ npi_pc = "built"
      /\ reduced # NoReduction
      /\ reduced.name = self.param_name
      /\ MethodOf(args, self.param_name) = "product"
      /\ args.modinf_ti <= ConfigStartDate(args)
      /\ ConfigStartDate(args) <= ConfigEndDate(args)
      /\ ConfigEndDate(args) <= args.modinf_tf )
    => /\ AllValues(0) => reduced.out = reduced.slab
       /\ AllValues(1) =>
            \A d \in GlobalDays : \A s \in SubpopSet :
                reduced.out[d][s] =
                    IF /\ s \in affected_subpops(args)
                       /\ ConfigStartDate(args) <= d
                       /\ d <= ConfigEndDate(args)
                    THEN 0
                    ELSE reduced.slab[d][s]

\* C6: reducing a parameter other than the modifier's own leaves its slab
\* unchanged in every cell, under each of the three methods.
C6_OtherParameterUnchanged ==
    ( /\ npi_pc = "built"
      /\ reduced # NoReduction
      /\ reduced.name # self.param_name )
    => reduced.out = reduced.slab

(***************************************************************************)
(* Validation of the modifier's subpops and of a persisted frame.          *)
(***************************************************************************)
\* C11: no modifier is constructed from a configuration whose subpop list
\* names a subpop that is not in self.subpops: such a construction fails.
C11_UnknownSubpopRejected ==
    (npi_pc = "built" /\ args.npi_config.subpop.kind = "list")
        => args.npi_config.subpop.list \subseteq SubpopSet

\* The affected subpops whose label loaded_df does not hold.
MissingFromLoadedDf ==
    LET sg == get_spatial_groups(args, affected_subpops(args))
    IN  { s \in affected_subpops(args) : LoadedRowsAt(args, LoadedKey(sg, s)) = << >> }

\* C12: a construction from a loaded_df that has rows of the modifier but none
\* for some affected subpop (or group) succeeds, and the subpops without a row
\* keep the default value.
C12_MissingRowLeftAtDefault ==
    ( /\ npi_pc \in {"built", "error"}
      /\ UsesLoadedDf(args)
      /\ MissingFromLoadedDf # {} )
    => /\ npi_pc = "built"
       /\ \A s \in MissingFromLoadedDf :
            ValueOf(s) = get_default(args, args.npi_config.parameter)

(***************************************************************************)
(* Parameters: construction, parameters_quick_draw, parameters_load.       *)
(***************************************************************************)
\* Parameter names, as sequences of characters.
sigma == <<"s", "i", "g", "m", "a">>

gamma == <<"g", "a", "m", "m", "a">>

GAMMA == <<"G", "A", "M", "M", "A">>

Ro == <<"R", "o">>

nu == <<"n", "u">>

\* The names a parameter config can hold.
ParamNameInputs == {sigma, gamma, GAMMA, Ro}

\* str.lower, one character: the upper-case letters of the names become
\* lower-case, every other character is kept.
LowerCharMutant(c) == c

LowerChar(c) ==
    IF c = "A" THEN "a"
    ELSE IF c = "G" THEN "g"
    ELSE IF c = "M" THEN "m"
    ELSE IF c = "R" THEN "r"
    ELSE c

\* name.lower()
Lower(name) == [i \in 1 .. Len(name) |-> LowerChar(name[i])]

\* The subpop_names a Parameters can be given.
SubpopNamesInputs == { <<"1">>, <<"1", "2">> }

\* The time series files: the days first .. last, ncols columns beside "date".
TsFiles ==
    { f \in [first : Dates, last : Dates, ncols : 1 .. 3] : f.first <= f.last }

NoFile == [first |-> 0, last |-> 0, ncols |-> 0]

\* The value a file holds on day d in its column j.
FileCell(f, d, j) == 10 * d + j

\* The config entry of a name: sigma is a time series, gamma a fixed value
\* with method sum, GAMMA a fixed value, Ro a distribution.
EntryOf(name, f) ==
    IF name = sigma
    THEN [name |-> name, kind |-> "timeseries", file |-> f, value |-> 0,
          support |-> {}, stacked_modifier_method |-> "product"]
    ELSE IF name = gamma
    THEN [name |-> name, kind |-> "fixed", file |-> NoFile, value |-> 2,
          support |-> {2}, stacked_modifier_method |-> "sum"]
    ELSE IF name = GAMMA
    THEN [name |-> name, kind |-> "fixed", file |-> NoFile, value |-> 3,
          support |-> {3}, stacked_modifier_method |-> "product"]
    ELSE [name |-> name, kind |-> "distribution", file |-> NoFile, value |-> 0,
          support |-> {5, 6}, stacked_modifier_method |-> "product"]

\* The keys of a parameter config, in declaration order: up to three names,
\* no key twice.
NameSeqs ==
    { q \in UNION { [1 .. n -> ParamNameInputs] : n \in 1 .. 3 } :
        \A i \in 1 .. Len(q) : \A j \in 1 .. Len(q) : q[i] = q[j] => i = j }

\* Whether two configured names are the same after lowercasing.
SameName(cfg) ==
    \E i \in 1 .. Len(cfg) : \E j \in 1 .. Len(cfg) :
        i # j /\ Lower(cfg[i].name) = Lower(cfg[j].name)

\* The days of a file that lie in [ti, tf]: the file is cut to the config's
\* time span before its dates are compared.
TsDays(f, a) ==
    (IF f.first > a.ti THEN f.first ELSE a.ti) .. (IF f.last < a.tf THEN f.last ELSE a.tf)

\* The error the time series of entry e raises, "" when none: the number of
\* columns is neither one nor that of the subpops, or the days of the file in
\* [ti, tf] are not all the days of [ti, tf].
TimeseriesError(e, a) ==
    IF e.kind # "timeseries" THEN ""
    ELSE IF e.file.ncols # 1 /\ e.file.ncols # Len(a.subpop_names) THEN "columns"
    ELSE IF Cardinality(TsDays(e.file, a)) # a.tf - a.ti + 1 THEN "dates"
    ELSE ""

\* The error construction raises, "" when none: the same-name test, then the
\* entries in declaration order.
ConstructionError(a) ==
    LET cfg == a.parameter_config
        bad == { i \in 1 .. Len(cfg) : TimeseriesError(cfg[i], a) # "" }
    IN  IF SameName(cfg) THEN "same name"
        ELSE IF bad = {} THEN ""
        ELSE TimeseriesError(cfg[CHOOSE i \in bad : \A j \in bad : i <= j], a)

\* pdata[pn]["ts"]: day by subpop, one column of the file for each subpop, or
\* its only column for all of them.
StoredTs(e, a) ==
    [d \in 1 .. (a.tf - a.ti + 1) |->
        [j \in 1 .. Len(a.subpop_names) |->
            FileCell(e.file, a.ti + d - 1, IF e.file.ncols = 1 THEN 1 ELSE j)]]

\* The Parameters object: names in declaration order, pdata with idx, the
\* sampler or the stored matrix, the method; the names bucketed by method.
ParametersObject(a) ==
    LET cfg == a.parameter_config
    IN  [pnames |-> [i \in 1 .. Len(cfg) |-> cfg[i].name],
         npar   |-> Len(cfg),
         pdata  |-> [i \in 1 .. Len(cfg) |->
                       [idx  |-> i - 1,
                        kind |-> cfg[i].kind,
                        dist |-> cfg[i].support,
                        ts   |-> IF cfg[i].kind = "timeseries"
                                 THEN StoredTs(cfg[i], a) ELSE << >>,
                        stacked_modifier_method |-> cfg[i].stacked_modifier_method]],
         stacked_modifier_method |->
             [m \in {"sum", "product", "reduction_product"} |->
                 SelectSeq([i \in 1 .. Len(cfg) |-> Lower(cfg[i].name)],
                           LAMBDA n : \E i \in 1 .. Len(cfg) :
                               /\ Lower(cfg[i].name) = n
                               /\ cfg[i].stacked_modifier_method = m)]]

\* The arguments of a construction.
ParamInit ==
    /\ \E q \in NameSeqs : \E f \in TsFiles : \E t \in 1 .. MaxDate - 1 :
       \E sn \in SubpopNamesInputs :
         p_args = [parameter_config |-> [i \in 1 .. Len(q) |-> EntryOf(q[i], f)],
                   ti |-> 1, tf |-> t, subpop_names |-> sn]
    /\ p_pc = "new"
    /\ parameters = NoParameters
    /\ p_error = ""
    /\ p_draw = NoDraw

\* Parameters.__init__
ParametersInit ==
    /\ p_pc = "new"
    /\ IF ConstructionError(p_args) # ""
       THEN /\ p_pc' = "error"
            /\ p_error' = ConstructionError(p_args)
            /\ parameters' = NoParameters
       ELSE /\ p_pc' = "built"
            /\ p_error' = ""
            /\ parameters' = ParametersObject(p_args)
    /\ UNCHANGED <<p_args, p_draw>>
    /\ UNCHANGED <<seirVars, npiVars, infoVars, runVars, calVars>>

\* Whether numpy can assign an array of shape (rows, cols) to a slab of shape
\* (D, N): each axis has the slab's length or length one.
CanBroadcast(m, D, N) ==
    /\ Len(m) = D \/ Len(m) = 1
    /\ \A d \in 1 .. Len(m) : Len(m[d]) = N \/ Len(m[d]) = 1

\* The (D, N) slab an array is broadcast to.
BroadcastTo(m, D, N) ==
    [d \in 1 .. D |->
        [j \in 1 .. N |->
            LET row == m[IF Len(m) = 1 THEN 1 ELSE d]
            IN  row[IF Len(row) = 1 THEN 1 ELSE j]]]

\* np.full((D, N), v)
Full(v, D, N) == [d \in 1 .. D |-> [j \in 1 .. N |-> v]]

\* The values the samplers can give in one draw: one value of its support for
\* each fixed or distributional parameter, 0 where nothing is drawn.
DrawInputs(obj) ==
    { v \in [1 .. obj.npar -> {0, 2, 3, 5, 6}] :
        \A i \in 1 .. obj.npar :
            v[i] \in (IF obj.pdata[i].kind = "timeseries" THEN {0} ELSE obj.pdata[i].dist) }

\* The rows of the override table for parameter name pn.
OverrideRows(param_df, pn) == SelectSeq(param_df, LAMBDA r : r.parameter = pn)

\* The value an override table gives a parameter: that of its first row.
OverrideValueMutant(param_df, pn) ==
    OverrideRows(param_df, pn)[Len(OverrideRows(param_df, pn))].value

OverrideValue(param_df, pn) == OverrideRows(param_df, pn)[1].value

\* The parameters whose time series cannot be written into a (D, N) slab and
\* that no row of the override table replaces.
Unbroadcastable(obj, param_df, D, N) ==
    { i \in 1 .. obj.npar :
        /\ obj.pdata[i].kind = "timeseries"
        /\ OverrideRows(param_df, obj.pnames[i]) = << >>
        /\ ~CanBroadcast(obj.pdata[i].ts, D, N) }

\* The tensor of a draw: a layer for each parameter, the override's value, or
\* the stored matrix, or one drawn value everywhere.
DrawTensor(obj, param_df, D, N, v) ==
    [i \in 1 .. obj.npar |->
        IF OverrideRows(param_df, obj.pnames[i]) # << >>
        THEN Full(OverrideValue(param_df, obj.pnames[i]), D, N)
        ELSE IF obj.pdata[i].kind = "timeseries"
        THEN BroadcastTo(obj.pdata[i].ts, D, N)
        ELSE Full(v[i], D, N)]

\* The result of a draw: the ValueError of the assignment of a time series
\* that does not fit, else the tensor.
DrawResult(call, obj, param_df, D, N, v) ==
    IF Unbroadcastable(obj, param_df, D, N) # {}
    THEN [call |-> call, n_days |-> D, nsubpops |-> N, param_df |-> param_df,
          status |-> "ValueError", message |-> "could not broadcast input array",
          out |-> << >>]
    ELSE [call |-> call, n_days |-> D, nsubpops |-> N, param_df |-> param_df,
          status |-> "ok", message |-> "",
          out |-> DrawTensor(obj, param_df, D, N, v)]

\* The override tables given to parameters_load.
OverrideInputs ==
    { << >>,
      << [parameter |-> sigma, value |-> 7] >>,
      << [parameter |-> nu, value |-> 8], [parameter |-> gamma, value |-> 9],
         [parameter |-> nu, value |-> 4] >>,
      << [parameter |-> gamma, value |-> 9], [parameter |-> gamma, value |-> 4],
         [parameter |-> Ro, value |-> 7] >> }

\* parameters_quick_draw(n_days, nsubpops)
parameters_quick_draw ==
    /\ p_pc = "built"
    /\ p_draw = NoDraw
    /\ \E D \in 1 .. MaxDate : \E N \in 1 .. 3 : \E v \in DrawInputs(parameters) :
         p_draw' = DrawResult("quick_draw", parameters, << >>, D, N, v)
    /\ UNCHANGED <<p_args, p_pc, parameters, p_error>>
    /\ UNCHANGED <<seirVars, npiVars, infoVars, runVars, calVars>>

\* parameters_load(param_df, n_days, nsubpops)
parameters_load ==
    /\ p_pc = "built"
    /\ p_draw = NoDraw
    /\ \E param_df \in OverrideInputs :
       \E D \in 1 .. MaxDate : \E N \in 1 .. 3 : \E v \in DrawInputs(parameters) :
         p_draw' = DrawResult("load", parameters, param_df, D, N, v)
    /\ UNCHANGED <<p_args, p_pc, parameters, p_error>>
    /\ UNCHANGED <<seirVars, npiVars, infoVars, runVars, calVars>>

ParamNext == ParametersInit \/ parameters_quick_draw \/ parameters_load

InitParams == SeirIdle /\ NpiIdle /\ InfoIdle /\ RunIdle /\ CalIdle /\ ParamInit

SpecParams == InitParams /\ [][ParamNext]_vars

(***************************************************************************)
(* Properties of Parameters.                                               *)
(***************************************************************************)
\* The configured names, and whether two of them differ by case only: among
\* the names of the model, gamma and GAMMA.
ConfiguredNames ==
    { p_args.parameter_config[i].name : i \in 1 .. Len(p_args.parameter_config) }

CaseCollision == {gamma, GAMMA} \subseteq ConfiguredNames

\* The time series entries of the config.
TimeseriesEntries ==
    { i \in 1 .. Len(p_args.parameter_config) :
        p_args.parameter_config[i].kind = "timeseries" }

\* C13: construction fails with the "same name" error whenever two configured
\* names are equal after lowercasing, and never raises it when all names
\* differ after lowercasing: such names are accepted (a config of them with no
\* time series is constructed).
C13_SameNameRejected ==
    p_pc \in {"built", "error"} =>
        /\ CaseCollision => (p_pc = "error" /\ p_error = "same name")
        /\ ~CaseCollision => p_error # "same name"
        /\ (~CaseCollision /\ TimeseriesEntries = {}) => p_pc = "built"

\* C13's case: the names sigma, gamma, GAMMA are rejected with "same name".
C13_Witness ==
    /\ p_pc = "error"
    /\ p_error = "same name"
    /\ Len(p_args.parameter_config) = 3
    /\ ConfiguredNames = {sigma, gamma, GAMMA}

\* C14: a Parameters with a time series entry is constructed only if the
\* file's dates are exactly the days of [ti, tf] and its number of columns is
\* N or 1; a file with another number of columns is rejected with the error of
\* the column counts, a file with fewer days than [ti, tf] with the error of
\* the date ranges.
C14_TimeseriesValidated ==
    p_pc \in {"built", "error"} =>
        \A i \in TimeseriesEntries :
            LET f == p_args.parameter_config[i].file
                N == Len(p_args.subpop_names)
            IN  /\ p_pc = "built" =>
                     /\ f.first = p_args.ti
                     /\ f.last = p_args.tf
                     /\ f.ncols \in {1, N}
                /\ (~CaseCollision /\ f.ncols \notin {1, N}) => p_error = "columns"
                /\ ( /\ ~CaseCollision
                     /\ f.ncols \in {1, N}
                     /\ f.last - f.first < p_args.tf - p_args.ti ) => p_error = "dates"

\* Whether matrix m has shape (D, N).
HasShape(m, D, N) == Len(m) = D /\ \A d \in 1 .. Len(m) : Len(m[d]) = N

\* C15: parameters_quick_draw(D, N) returns a layer of shape (D, N) for each
\* parameter, one value of the support in every cell for a fixed or
\* distributional parameter, the stored matrix for a time series; when the
\* stored matrix of a time series has not the shape (D, N) the call fails with
\* the "could not broadcast input array" error.
C15_QuickDraw ==
    (p_pc = "built" /\ p_draw # NoDraw /\ p_draw.call = "quick_draw") =>
        LET D   == p_draw.n_days
            N   == p_draw.nsubpops
            obj == parameters
            fit == \A i \in 1 .. obj.npar :
                       obj.pdata[i].kind = "timeseries" => HasShape(obj.pdata[i].ts, D, N)
        IN  /\ fit =>
                 /\ p_draw.status = "ok"
                 /\ Len(p_draw.out) = obj.npar
                 /\ \A i \in 1 .. obj.npar :
                      /\ HasShape(p_draw.out[i], D, N)
                      /\ obj.pdata[i].kind = "timeseries" => p_draw.out[i] = obj.pdata[i].ts
                      /\ obj.pdata[i].kind # "timeseries" =>
                           \E v \in obj.pdata[i].dist : p_draw.out[i] = Full(v, D, N)
            /\ ~fit =>
                 /\ p_draw.status = "ValueError"
                 /\ p_draw.message = "could not broadcast input array"

\* The rows of the override table of the last call that name parameter i.
C16_RowsOf(i) ==
    { k \in 1 .. Len(p_draw.param_df) : p_draw.param_df[k].parameter = parameters.pnames[i] }

\* The value of the first of these rows.
C16_FirstValue(i) ==
    p_draw.param_df[CHOOSE k \in C16_RowsOf(i) : \A l \in C16_RowsOf(i) : k <= l].value

\* C16: parameters_load gives every parameter with a row in the override table
\* a (D, N) layer of the value of its first row, a time series included,
\* whatever the shape of its stored matrix; a parameter without a row is as in
\* parameters_quick_draw; rows that name no configured parameter change
\* nothing and raise no error.
C16_Load ==
    (p_pc = "built" /\ p_draw # NoDraw /\ p_draw.call = "load") =>
        LET D   == p_draw.n_days
            N   == p_draw.nsubpops
            obj == parameters
            unfit == { i \in 1 .. obj.npar :
                         /\ obj.pdata[i].kind = "timeseries"
                         /\ C16_RowsOf(i) = {}
                         /\ ~HasShape(obj.pdata[i].ts, D, N) }
        IN  /\ unfit = {} => p_draw.status = "ok"
            /\ p_draw.status # "ok" => (p_draw.status = "ValueError" /\ unfit # {})
            /\ p_draw.status = "ok" =>
                 /\ Len(p_draw.out) = obj.npar
                 /\ \A i \in 1 .. obj.npar :
                      /\ HasShape(p_draw.out[i], D, N)
                      /\ C16_RowsOf(i) # {} =>
                           p_draw.out[i] = Full(C16_FirstValue(i), D, N)
                      /\ (C16_RowsOf(i) = {} /\ obj.pdata[i].kind # "timeseries") =>
                           \E v \in obj.pdata[i].dist : p_draw.out[i] = Full(v, D, N)
                      /\ (C16_RowsOf(i) = {} /\ i \notin unfit
                            /\ obj.pdata[i].kind = "timeseries") =>
                           p_draw.out[i] = obj.pdata[i].ts

\* C16's case: sigma (a time series), gamma and Ro, loaded with a table of two
\* rows of gamma and one of Ro: gamma takes 9, the first, Ro takes 7, sigma
\* its stored matrix.
C16_Witness ==
    /\ p_pc = "built"
    /\ p_draw # NoDraw
    /\ p_draw.call = "load"
    /\ p_draw.status = "ok"
    /\ parameters.pnames = <<sigma, gamma, Ro>>
    /\ Len(p_draw.param_df) = 3
    /\ p_draw.param_df[1] = [parameter |-> gamma, value |-> 9]
    /\ p_draw.out[2] = Full(9, p_draw.n_days, p_draw.nsubpops)
    /\ p_draw.out[3] = Full(7, p_draw.n_days, p_draw.nsubpops)
    /\ p_draw.out[1] = parameters.pdata[1].ts
    /\ p_draw.n_days = 2

(***************************************************************************)
(* TimeSetup and ModelInfo: construction from a config.                    *)
(*                                                                         *)
(* A config is a record that tells which sections exist; a date is a day   *)
(* number of Dates; an argument that is None is the string "None".  The    *)
(* constructors of the other modules that ModelInfo calls                  *)
(* (SubpopulationStructure, Parameters, SeedingFactory,                    *)
(* InitialConditionsFactory, Compartments) are taken to return.            *)
(***************************************************************************)

ScenarioInputs == {"None", "Scenario1"}

\* The configs: a sub-section "scenarios" exists only inside its section.
ConfigInputs ==
    { c \in [ name : {"minimal"},
              start_date : Dates, end_date : Dates,
              interventions : BOOLEAN, data_path : BOOLEAN,
              seir : BOOLEAN, seeding : BOOLEAN, initial_conditions : BOOLEAN,
              seir_modifiers : BOOLEAN, seir_modifiers_scenarios : BOOLEAN,
              outcomes : BOOLEAN,
              outcome_modifiers : BOOLEAN, outcome_modifiers_scenarios : BOOLEAN ] :
        /\ c.seir_modifiers_scenarios => c.seir_modifiers
        /\ c.outcome_modifiers_scenarios => c.outcome_modifiers }

\* pathlib.Path: a path is absolute or relative and names directories; the
\* path of a file also holds the name of the file.
EmptyPath == [abs |-> FALSE, dirs |-> << >>]

\* The values of path_prefix: "" (the default), a relative and an absolute one.
PathInputs ==
    { EmptyPath, [abs |-> FALSE, dirs |-> <<"rel">>], [abs |-> TRUE, dirs |-> <<"abs">>] }

\* pathlib's p / f: an absolute right operand replaces the left one.
PathJoin(p, f) ==
    IF f.abs THEN f
    ELSE [abs |-> p.abs, dirs |-> p.dirs \o f.dirs, file |-> f.file]

\* The arguments of ModelInfo that its construction tests do not depend on,
\* at their defaults.
DefaultFileArgs ==
    [ path_prefix : {EmptyPath}, write_csv : {FALSE}, write_parquet : {FALSE},
      first_sim_index : {1}, in_run_id : {"None"}, out_run_id : {"None"} ]

\* Arguments a and b as one record of arguments.
WithArgs(a, b) ==
    [ k \in DOMAIN a \cup DOMAIN b |-> IF k \in DOMAIN a THEN a[k] ELSE b[k] ]

n_daysMutant(ti, tf) == tf - ti

\* self.n_days = (self.tf - self.ti).days + 1
n_days(ti, tf) == (tf - ti) + 1

\* pd.date_range(start, end, freq="D"): every day from start to end.
date_range(start, end) == [ i \in 1 .. (end - start + 1) |-> start + (i - 1) ]

TimeSetupErrorMutant(config) ==
    IF config.end_date < config.start_date THEN "ValueError" ELSE ""

\* TimeSetup.__init__: the exception it raises, "" when it returns.
TimeSetupError(config) ==
    IF config.end_date <= config.start_date THEN "ValueError" ELSE ""

\* TimeSetup.__init__: the object it returns.
TimeSetup(config) ==
    [ ti     |-> config.start_date,
      tf     |-> config.end_date,
      n_days |-> n_days(config.start_date, config.end_date),
      dates  |-> date_range(config.start_date, config.end_date) ]

\* Step 1 of ModelInfo.__init__: the name of the config and of each scenario.
setup_name(a) ==
    <<a.config.name>>
        \o (IF a.seir_modifiers_scenario # "None"
                THEN <<a.seir_modifiers_scenario>> ELSE << >>)
        \o (IF a.outcome_modifiers_scenario # "None"
                THEN <<a.outcome_modifiers_scenario>> ELSE << >>)

SeirErrorMutant(a) ==
    IF a.config.seir
    THEN IF a.config.seir_modifiers
         THEN IF a.config.seir_modifiers_scenarios THEN "" ELSE "NotImplementedError"
         ELSE ""
    ELSE IF a.seir_modifiers_scenario # "None" THEN "ValueError" ELSE ""

\* Step 4 of ModelInfo.__init__, the SEIR structure: the exception it raises.
\* Missing seeding and initial_conditions sections are logged, not raised.
SeirError(a) ==
    IF a.config.seir
    THEN IF a.config.seir_modifiers
         THEN IF a.config.seir_modifiers_scenarios THEN "" ELSE "NotImplementedError"
         ELSE IF a.seir_modifiers_scenario # "None" THEN "ValueError" ELSE ""
    ELSE IF a.seir_modifiers_scenario # "None" THEN "ValueError" ELSE ""

\* Step 5 of ModelInfo.__init__, the outcomes: the exception it raises.  With
\* outcomes and without outcome_modifiers the raise is under a test of
\* config["outcome_modifiers"].exists(), false on that branch.
OutcomesError(a) ==
    IF a.config.outcomes
    THEN IF a.config.outcome_modifiers
         THEN IF a.config.outcome_modifiers_scenarios THEN "" ELSE "NotImplementedError"
         ELSE ""
    ELSE IF a.outcome_modifiers_scenario # "None" THEN "ValueError" ELSE ""

\* ModelInfo.__init__: the first exception raised, in the order of the code.
ModelInfoError(a) ==
    IF a.config.interventions THEN "ValueError"
    ELSE IF TimeSetupError(a.config) # "" THEN TimeSetupError(a.config)
    ELSE IF a.config.data_path THEN "ValueError"
    ELSE IF SeirError(a) # "" THEN SeirError(a)
    ELSE OutcomesError(a)

\* Step 6 of ModelInfo.__init__: in_run_id defaults to file_paths.run_id(),
\* out_run_id to in_run_id.
in_run_id(a) == IF a.in_run_id = "None" THEN "run_id()" ELSE a.in_run_id

out_run_id(a) == IF a.out_run_id = "None" THEN in_run_id(a) ELSE a.out_run_id

\* ModelInfo.__init__: the attributes of the object when nothing is raised.
\* An attribute the code does not assign is "unset".
ModelInfoObject(a) ==
    LET config == a.config
        ts     == TimeSetup(config)
    IN  [ setup_name |-> setup_name(a),
          time_setup |-> ts,
          ti |-> ts.ti, tf |-> ts.tf, n_days |-> ts.n_days, dates |-> ts.dates,
          seir_config |-> IF config.seir THEN "seir" ELSE "None",
          seeding_config |->
              IF ~config.seir THEN "unset"
              ELSE IF config.seeding THEN "seeding" ELSE "None",
          initial_conditions_config |->
              IF ~config.seir THEN "unset"
              ELSE IF config.initial_conditions THEN "initial_conditions" ELSE "None",
          seir_modifiers_scenario |-> a.seir_modifiers_scenario,
          npi_config_seir |->
              IF ~config.seir THEN "unset"
              ELSE IF config.seir_modifiers THEN a.seir_modifiers_scenario ELSE "None",
          outcomes_config |-> IF config.outcomes THEN "outcomes" ELSE "None",
          outcome_modifiers_scenario |->
              IF config.outcomes /\ ~config.outcome_modifiers
                  THEN "None" ELSE a.outcome_modifiers_scenario,
          npi_config_outcomes |->
              IF config.outcomes /\ config.outcome_modifiers
                  THEN a.outcome_modifiers_scenario ELSE "None",
          path_prefix |-> a.path_prefix,
          first_sim_index |-> a.first_sim_index,
          in_run_id |-> in_run_id(a),
          out_run_id |-> out_run_id(a),
          in_prefix |-> <<setup_name(a), in_run_id(a)>>,
          out_prefix |-> <<setup_name(a), out_run_id(a)>>,
          extension |-> IF a.write_parquet THEN "parquet"
                        ELSE IF a.write_csv THEN "csv" ELSE "unset" ]

InfoInit ==
    /\ mi_args \in { WithArgs(a, b) :
                        a \in [ config : ConfigInputs,
                                seir_modifiers_scenario : ScenarioInputs,
                                outcome_modifiers_scenario : ScenarioInputs ],
                        b \in DefaultFileArgs }
    /\ mi_pc = "new"
    /\ time_setup = NoTimeSetup
    /\ modinf = NoModelInfo
    /\ mi_error = ""

\* TimeSetup(config), called on its own.
TimeSetupInit ==
    /\ mi_pc = "new"
    /\ LET e == TimeSetupError(mi_args.config)
       IN  /\ mi_error' = e
           /\ mi_pc' = IF e = "" THEN "time_setup" ELSE "time_setup_error"
           /\ time_setup' = IF e = "" THEN TimeSetup(mi_args.config) ELSE NoTimeSetup
    /\ UNCHANGED <<mi_args, modinf>>
    /\ UNCHANGED <<seirVars, npiVars, paramVars, runVars, calVars>>

\* ModelInfo(config=..., seir_modifiers_scenario=..., outcome_modifiers_scenario=...).
ModelInfoInit ==
    /\ mi_pc = "new"
    /\ LET e == ModelInfoError(mi_args)
       IN  /\ mi_error' = e
           /\ mi_pc' = IF e = "" THEN "built" ELSE "error"
           /\ modinf' = IF e = "" THEN ModelInfoObject(mi_args) ELSE NoModelInfo
           /\ time_setup' = IF e = "" THEN TimeSetup(mi_args.config) ELSE NoTimeSetup
    /\ UNCHANGED mi_args
    /\ UNCHANGED <<seirVars, npiVars, paramVars, runVars, calVars>>

InfoNext == TimeSetupInit \/ ModelInfoInit

InitInfo == SeirIdle /\ NpiIdle /\ ParamIdle /\ RunIdle /\ CalIdle /\ InfoInit

SpecInfo == InitInfo /\ [][InfoNext]_vars

(***************************************************************************)
(* Properties of TimeSetup and ModelInfo.                                  *)
(***************************************************************************)

\* C17: for every accepted (start_date, end_date), TimeSetup yields n_days =
\* (tf - ti in days) + 1 and a dates index of exactly n_days consecutive
\* days whose first element is ti and whose last element is tf.
C17_TimeSetupGrid ==
    mi_pc \in {"time_setup", "built"} =>
        LET ti == mi_args.config.start_date
            tf == mi_args.config.end_date
            d  == time_setup.dates
        IN  /\ time_setup.ti = ti
            /\ time_setup.tf = tf
            /\ time_setup.n_days = (tf - ti) + 1
            /\ Len(d) = time_setup.n_days
            /\ d[1] = ti
            /\ d[Len(d)] = tf
            /\ \A i \in 1 .. Len(d) - 1 : d[i + 1] = d[i] + 1
            /\ mi_pc = "built" =>
                 /\ modinf.n_days = time_setup.n_days
                 /\ modinf.dates = d

\* C17's case: TimeSetup accepted days 1..3, a grid of three days.
C17_Witness ==
    /\ mi_pc = "time_setup"
    /\ mi_args.config.start_date = 1
    /\ mi_args.config.end_date = 3
    /\ time_setup.n_days = 3
    /\ time_setup.dates = <<1, 2, 3>>

\* C18: ModelInfo construction fails (returns no object) when the config has
\* a seir section but neither a seeding section nor an initial_conditions
\* section.
C18_SeirNeedsSeedingOrIC ==
    ( /\ mi_pc \in {"built", "error"}
      /\ mi_args.config.seir
      /\ ~mi_args.config.seeding
      /\ ~mi_args.config.initial_conditions )
    => /\ mi_pc = "error"
       /\ modinf = NoModelInfo

(***************************************************************************)
(* The run of one sim id and the files it writes.                          *)
(*                                                                         *)
(* A run makes the calls of the SEIR tests in their order, then writes its *)
(* three artifacts with write_simID.  Runs of different sim ids interleave.*)
(* write_df stores the frame at the path it is given: the file is created  *)
(* or truncated there and its rows are written one after the other, so a   *)
(* reader of the same path can read between two of these steps.            *)
(***************************************************************************)

\* sim_id2write, and sim_id2write + 1 of the continuation tests.
SimIdInputs == {100, 101}

\* The three artifacts of a sim id.
Ftypes == <<"seir", "spar", "snpi">>

\* The calls of one run up to the integration, in the order they are made.
RunCalls ==
    << "load_seeding", "draw_ic", "NPIBase.execute",
       "parameters_quick_draw", "parameters_reduce",
       "get_transition_array", "parse_parameters", "steps_SEIR" >>

\* A sim id is run once, or a second time against the same run id.
RunNames == {"first", "second"}

\* The frame a run writes: two rows that name the run.
df(r) == << [part |-> "head", of |-> r], [part |-> "tail", of |-> r] >>

\* file_paths.create_file_name: a relative path made of its arguments.
create_file_name(run_id, prefix, index, ftype, extension) ==
    [ abs  |-> FALSE,
      dirs |-> << >>,
      file |-> [ run_id |-> run_id, prefix |-> prefix, index |-> index,
                 ftype |-> ftype, extension |-> extension ] ]

\* ModelInfo.get_filename.
get_filename(m, ftype, sim_id, input, extension_override) ==
    PathJoin(m.path_prefix,
             create_file_name(IF input THEN m.in_run_id ELSE m.out_run_id,
                              IF input THEN m.in_prefix ELSE m.out_prefix,
                              sim_id + m.first_sim_index - 1,
                              ftype,
                              IF extension_override # ""
                                  THEN extension_override ELSE m.extension))

\* ModelInfo.get_input_filename: path_prefix / get_filename(input=True).
get_input_filename(m, ftype, sim_id, extension_override) ==
    PathJoin(m.path_prefix, get_filename(m, ftype, sim_id, TRUE, extension_override))

\* ModelInfo.get_output_filename: path_prefix / get_filename(input=False).
get_output_filename(m, ftype, sim_id, extension_override) ==
    PathJoin(m.path_prefix, get_filename(m, ftype, sim_id, FALSE, extension_override))

\* No file at a path.
NoFileAt == [exists |-> FALSE, rows |-> << >>]

\* The paths of the artifacts of the modelled sim ids.
ArtifactPaths ==
    { get_filename(modinf, Ftypes[k], sid, FALSE, "") :
        k \in DOMAIN Ftypes, sid \in SimIdInputs }

\* The config of the runs: seir with seeding and initial conditions, over
\* the days 0 .. MaxDate.
RunConfig ==
    [ name |-> "minimal", start_date |-> 0, end_date |-> MaxDate,
      interventions |-> FALSE, data_path |-> FALSE,
      seir |-> TRUE, seeding |-> TRUE, initial_conditions |-> TRUE,
      seir_modifiers |-> TRUE, seir_modifiers_scenarios |-> TRUE,
      outcomes |-> FALSE,
      outcome_modifiers |-> FALSE, outcome_modifiers_scenarios |-> FALSE ]

\* A ModelInfo that writes parquet files, no run started, no file written.
RunInit ==
    /\ mi_args \in { WithArgs(a, b) :
                        a \in [ config : {RunConfig},
                                seir_modifiers_scenario : {"Scenario1"},
                                outcome_modifiers_scenario : {"None"} ],
                        b \in [ path_prefix : PathInputs,
                                write_csv : {FALSE}, write_parquet : {TRUE},
                                first_sim_index : {1},
                                in_run_id : {"None"}, out_run_id : {"None"} ] }
    /\ mi_pc = "built"
    /\ mi_error = ""
    /\ time_setup = TimeSetup(mi_args.config)
    /\ modinf = ModelInfoObject(mi_args)
    /\ run = [ sid \in SimIdInputs |->
                 [ name |-> "first", done |-> << >>, open |-> FALSE, rows |-> 0 ] ]
    /\ fs = [ f \in ArtifactPaths |-> NoFileAt ]
    /\ seen = [read |-> FALSE]

\* The artifact a run writes next: one for each write_simID it has returned from.
NextFtype(r) == Ftypes[Len(r.done) - Len(RunCalls) + 1]

\* The run of sid makes its next call, which returns.
onerun_call(sid) ==
    /\ Len(run[sid].done) < Len(RunCalls)
    /\ run' = [run EXCEPT ![sid].done = Append(@, RunCalls[Len(@) + 1])]
    /\ UNCHANGED <<fs, seen>>
    /\ UNCHANGED <<seirVars, npiVars, paramVars, infoVars, calVars>>

\* write_simID up to the opening of the file by write_df: fname is the final
\* path of the artifact; the file is created, or truncated if it exists.
write_simID(sid) ==
    /\ Len(run[sid].done) >= Len(RunCalls)
    /\ Len(run[sid].done) < Len(RunCalls) + Len(Ftypes)
    /\ ~run[sid].open
    /\ LET fname == get_filename(modinf, NextFtype(run[sid]), sid, FALSE, "")
       IN  fs' = [fs EXCEPT ![fname] = [exists |-> TRUE, rows |-> << >>]]
    /\ run' = [run EXCEPT ![sid].open = TRUE, ![sid].rows = 0]
    /\ UNCHANGED seen
    /\ UNCHANGED <<seirVars, npiVars, paramVars, infoVars, calVars>>

\* write_df writes the next row of the frame; after the last one the file is
\* closed and write_simID returns fname.
write_df(sid) ==
    /\ run[sid].open
    /\ LET r     == run[sid]
           fname == get_filename(modinf, NextFtype(r), sid, FALSE, "")
           frame == df(r.name)
           last  == r.rows + 1 = Len(frame)
       IN  /\ fs' = [fs EXCEPT ![fname].rows = Append(@, frame[r.rows + 1])]
           /\ run' = [run EXCEPT
                        ![sid].rows = IF last THEN 0 ELSE r.rows + 1,
                        ![sid].open = ~last,
                        ![sid].done = IF last THEN Append(@, "write_simID") ELSE @]
    /\ UNCHANGED seen
    /\ UNCHANGED <<seirVars, npiVars, paramVars, infoVars, calVars>>

\* The sim id is run a second time, once its first run has written its
\* artifacts.
onerun_again(sid) ==
    /\ run[sid].name = "first"
    /\ Len(run[sid].done) = Len(RunCalls) + Len(Ftypes)
    /\ run' = [run EXCEPT ![sid].name = "second", ![sid].done = << >>]
    /\ UNCHANGED <<fs, seen>>
    /\ UNCHANGED <<seirVars, npiVars, paramVars, infoVars, calVars>>

\* read_simID by a reader that runs beside the writers: it reads the file at
\* the path of the artifact as it is at that moment.
read_simID(sid, ftype) ==
    /\ LET fname == get_filename(modinf, ftype, sid, TRUE, "")
       IN  seen' = [ read |-> TRUE, sim_id |-> sid, ftype |-> ftype, fname |-> fname,
                     exists |-> fs[fname].exists, rows |-> fs[fname].rows ]
    /\ UNCHANGED <<run, fs>>
    /\ UNCHANGED <<seirVars, npiVars, paramVars, infoVars, calVars>>

RunNext ==
    \/ \E sid \in SimIdInputs : onerun_call(sid)
    \/ \E sid \in SimIdInputs : write_simID(sid)
    \/ \E sid \in SimIdInputs : write_df(sid)
    \/ \E sid \in SimIdInputs : onerun_again(sid)
    \/ \E sid \in SimIdInputs, k \in DOMAIN Ftypes : read_simID(sid, Ftypes[k])

InitRun == SeirIdle /\ NpiIdle /\ ParamIdle /\ CalIdle /\ RunInit

SpecRun == InitRun /\ [][RunNext]_vars

(***************************************************************************)
(* Properties of a run.                                                    *)
(***************************************************************************)

\* The six steps of a run in the order the specification makes mandatory.
MandatoryOrder ==
    << "parameters_quick_draw", "parameters_reduce", "load_seeding",
       "draw_ic", "steps_SEIR", "write_simID" >>

\* C19: within one sim id the six steps of a run always happen in the order
\* parameter draw, modifier reduction, seeding load, initial-conditions
\* draw, integration, artifact write: each step is done only after all the
\* steps before it in that order are done, so no run reaches integration
\* with a step missing.
C19_MandatoryOrder ==
    \A sid \in SimIdInputs :
        LET done == run[sid].done
        IN  \A i \in DOMAIN done, k \in DOMAIN MandatoryOrder :
                done[i] = MandatoryOrder[k] =>
                    \A h \in 1 .. k - 1 :
                        \E j \in 1 .. i - 1 : done[j] = MandatoryOrder[h]

\* C20: artifacts are written atomically per sim id: at every moment a
\* reader of the final path of an artifact sees no file, the previous
\* complete file or the new complete file, never a partially written one.
C20_AtomicWrite ==
    (seen.read /\ seen.exists) => seen.rows \in { df(r) : r \in RunNames }

(***************************************************************************)
(* Properties of the scenarios of ModelInfo and of the dates of TimeSetup. *)
(***************************************************************************)

C27_OutcomeScenarioNeedsSection ==
    ( /\ mi_pc \in {"built", "error"}
      /\ mi_args.outcome_modifiers_scenario # "None"
      /\ mi_args.config.outcomes
      /\ ~mi_args.config.outcome_modifiers )
    => /\ mi_pc = "error"
       /\ mi_error = "ValueError"

\* C30: TimeSetup construction raises ValueError exactly when end_date <=
\* start_date; a one-day range (end_date = start_date) is rejected, so
\* every constructed time grid has n_days >= 2.
C30_TimeSetupRejects ==
    /\ mi_pc \in {"time_setup", "time_setup_error"} =>
         /\ (mi_pc = "time_setup_error") <=>
                (mi_args.config.end_date <= mi_args.config.start_date)
         /\ mi_pc = "time_setup_error" =>
                (mi_error = "ValueError" /\ time_setup = NoTimeSetup)
    /\ mi_pc \in {"time_setup", "built"} => time_setup.n_days >= 2

\* C30's case: TimeSetup of a one-day range has raised ValueError.
C30_Witness ==
    /\ mi_pc = "time_setup_error"
    /\ mi_error = "ValueError"
    /\ mi_args.config.end_date = mi_args.config.start_date

(***************************************************************************)
(* The round trip of a modifier through its persisted frame.               *)
(***************************************************************************)

\* The second construction reads the config the first was built from: the
\* same window, the same affected subpops (the groups never change), and
\* its loaded_df is what getReductionToWrite returned for the first.
C29_SameConfig ==
    /\ generation = 2
    /\ previous # NoObject
    /\ ConfigStartDate(args) = previous.parameters[1].start_date
    /\ ConfigEndDate(args) = previous.parameters[1].end_date
    /\ affected_subpops(args) = previous.affected_subpops
    /\ args.loaded_df = ReductionToWrite(previous)

\* C29: persist/restore round trip: for a SinglePeriodModifier m built from
\* a config, a second modifier built from the same config with loaded_df =
\* m.getReductionToWrite() is constructed, has the value of m for every
\* affected subpop and an npi table equal to m's in every cell.
C29_RoundTrip ==
    (C29_SameConfig /\ npi_pc \in {"built", "error"}) =>
        /\ npi_pc = "built"
        /\ draws = 0
        /\ self.affected_subpops = previous.affected_subpops
        /\ \A s \in previous.affected_subpops :
              RowOf(self.parameters, s).value = RowOf(previous.parameters, s).value
        /\ \A s \in SubpopSet : \A d \in args.modinf_ti .. args.modinf_tf :
              self.npi[s][d] = previous.npi[s][d]

\* C29's case: a modifier with a group of two subpops and an ungrouped one,
\* with two different values, rebuilt from its own frame.
C29_Witness ==
    /\ C29_SameConfig
    /\ npi_pc = "built"
    /\ \E i \in 1 .. Len(self.spatial_groups.grouped) :
          Len(self.spatial_groups.grouped[i]) = 2
    /\ self.spatial_groups.ungrouped # << >>
    /\ \E i, j \in 1 .. Len(self.parameters) :
          self.parameters[i].value # self.parameters[j].value
    /\ \E s \in SubpopSet : \E d \in args.modinf_ti .. args.modinf_tf :
          self.npi[s][d] # get_default(args, args.npi_config.parameter)

(***************************************************************************)
(* The names of the files a ModelInfo reads and writes.                    *)
(***************************************************************************)

\* The path made of path_prefix, once, and the file name of the simulation
\* index sim_id + first_sim_index - 1 under a run id and a prefix.
C28_PathOf(run_id, prefix, ftype, sim_id) ==
    [ abs  |-> modinf.path_prefix.abs,
      dirs |-> modinf.path_prefix.dirs,
      file |-> [ run_id |-> run_id, prefix |-> prefix,
                 index |-> sim_id + modinf.first_sim_index - 1,
                 ftype |-> ftype, extension |-> modinf.extension ] ]

\* C28: for every ftype, sim_id and path_prefix (empty, relative or
\* absolute), get_output_filename(ftype, sim_id) is the path write_simID
\* writes to and get_input_filename(ftype, sim_id) is the path read_simID
\* reads; each applies path_prefix exactly once and uses the simulation
\* index sim_id + first_sim_index - 1, with the in_ run id and prefix for
\* input and the out_ ones for output.
C28_FilenamesAgree ==
    mi_pc = "built" =>
        /\ \A f \in DOMAIN fs :
              fs[f].exists =>
                  \E sid \in SimIdInputs, k \in DOMAIN Ftypes :
                      /\ f = get_output_filename(modinf, Ftypes[k], sid, "")
                      /\ f = C28_PathOf(modinf.out_run_id, modinf.out_prefix, Ftypes[k], sid)
        /\ seen.read =>
              /\ seen.fname = get_input_filename(modinf, seen.ftype, seen.sim_id, "")
              /\ seen.fname = C28_PathOf(modinf.in_run_id, modinf.in_prefix,
                                         seen.ftype, seen.sim_id)

(***************************************************************************)
(* calibrate: one invocation of the command.                               *)
(*                                                                         *)
(* The statements of calibrate are taken in their order.  The pool is      *)
(* multiprocessing.Pool: a task sent to a worker carries the callable      *)
(* gempyor_inference.get_logloss_as_single_number pickled with its object, *)
(* so the worker evaluates on a copy made when the task is sent.  The      *)
(* sampler and the backend are emcee's: a backend is a chain stored at a   *)
(* location, run_mcmc appends one entry for each iteration.  An option     *)
(* that is not given is None.                                              *)
(***************************************************************************)

\* The value of an option that is not given (None); click only lets
\* integers from 1 on through.
Omitted == 0

\* config["nslots"].as_number()
ConfigNslots == 2

\* f"{run_id}_backend.h5"
filename == "run_backend.h5"

\* The locations of backends: filename, and another file.
Locations == {filename, "other_backend.h5"}

\* The worker processes of multiprocessing.Pool(ncpu).
WorkerIds == {"w1", "w2"}

\* A backend that an earlier invocation has written, and no backend.
EarlierBackend == [exists |-> TRUE, chain |-> <<"earlier">>, reset |-> FALSE]

NoBackend == [exists |-> FALSE, chain |-> << >>, reset |-> FALSE]

\* The statements of calibrate, in their order.
CalibrateOrderMutant ==
    << "GempyorInference", "perform_test_run", "filename", "backend", "set_save",
       "run_mcmc", "plot_chains", "rmtree", "samples", "starmap", "done" >>

CalibrateOrder ==
    << "GempyorInference", "perform_test_run", "filename", "backend",
       "run_mcmc", "plot_chains", "rmtree", "samples", "set_save", "starmap", "done" >>

\* The statement after statement st.
Following(st) ==
    CalibrateOrder[(CHOOSE i \in DOMAIN CalibrateOrder : CalibrateOrder[i] = st) + 1]

\* What an evaluation of get_logloss_as_single_number by worker w leaves: the
\* worker's copy is written, the object of the parent process is not.
EvaluatedMutant(parent, obj, w) ==
    [ parent |-> [parent EXCEPT !.touched = @ \cup {w}],
      obj    |-> [obj EXCEPT !.touched = @ \cup {w}] ]

Evaluated(parent, obj, w) ==
    [ parent |-> parent,
      obj    |-> [obj EXCEPT !.touched = @ \cup {w}] ]

\* The test of L152-155: the file exists and --resume is off.
FileInTheWayMutant(a) == FALSE

FileInTheWay(a) == a.exists /\ ~a.resume

\* L160: resume or resume_location is not None.
DoingResume(a) == a.resume \/ a.resume_location # "None"

CalInit ==
    /\ cal_args \in [ nwalkers : {Omitted, 2}, niter : {Omitted, 1},
                      nsamples : {Omitted, 1, 2},
                      resume : BOOLEAN, resume_location : {"None"} \cup Locations,
                      exists : BOOLEAN ]
    /\ cal_pc = "GempyorInference"
    /\ cal = [ nwalkers |-> cal_args.nwalkers, niter |-> cal_args.niter,
               nsamples |-> cal_args.nsamples,
               p0 |-> "None", backend |-> "None", sampler |-> "None",
               wrote_to |-> "None", read_from |-> "None",
               running |-> FALSE, iteration |-> 0, pending |-> {},
               samples |-> 0, error |-> "" ]
    /\ disk = [ l \in Locations |->
                  IF l = filename /\ ~cal_args.exists THEN NoBackend ELSE EarlierBackend ]
    /\ inference = [built |-> FALSE, save |-> FALSE, silent |-> TRUE, touched |-> {}]
    /\ pool = [ w \in WorkerIds |-> [busy |-> FALSE, obj |-> inference, task |-> 0] ]
    /\ cal_log = << >>

\* The variables of the other components.
NotCal == <<seirVars, npiVars, paramVars, infoVars, runVars>>

\* L127-145: gempyor_inference is made (autowrite_seir=False; it does not
\* save until set_save(True)); nwalkers, when not given, is read from the
\* config.  niter and nsamples are left as given.
GempyorInference ==
    /\ cal_pc = "GempyorInference"
    /\ inference' = [inference EXCEPT !.built = TRUE]
    /\ cal' = [cal EXCEPT !.nwalkers = IF @ = Omitted THEN ConfigNslots ELSE @]
    /\ cal_pc' = Following(cal_pc)
    /\ UNCHANGED <<cal_args, disk, pool, cal_log>>
    /\ UNCHANGED NotCal

\* L147-149: the test run, in the parent process.
perform_test_run ==
    /\ cal_pc = "perform_test_run"
    /\ cal_log' = Append(cal_log, [ev |-> "perform_test_run", save |-> inference.save])
    /\ cal_pc' = Following(cal_pc)
    /\ UNCHANGED <<cal_args, cal, disk, inference, pool>>
    /\ UNCHANGED NotCal

\* L151-157: return when the file exists and --resume is off.
check_filename ==
    /\ cal_pc = "filename"
    /\ cal_pc' = IF FileInTheWay(cal_args) THEN "returned" ELSE Following(cal_pc)
    /\ UNCHANGED <<cal_args, cal, disk, inference, pool, cal_log>>
    /\ UNCHANGED NotCal

\* L159-180: the backend of the sampler.  A resume takes the backend at
\* resume_location, else the one at filename, and returns when that file
\* does not exist; a fresh start opens the backend at filename and resets it.
open_backend ==
    /\ cal_pc = "backend"
    /\ IF DoingResume(cal_args)
       THEN IF cal_args.resume_location # "None"
            THEN /\ cal' = [cal EXCEPT !.backend = cal_args.resume_location]
                 /\ cal_pc' = Following(cal_pc)
                 /\ UNCHANGED disk
            ELSE IF ~disk[filename].exists
            THEN /\ cal_pc' = "returned"
                 /\ UNCHANGED <<cal, disk>>
            ELSE /\ cal' = [cal EXCEPT !.backend = filename]
                 /\ cal_pc' = Following(cal_pc)
                 /\ UNCHANGED disk
       ELSE /\ cal' = [cal EXCEPT !.backend = filename, !.p0 = "draw_initial"]
            /\ disk' = [disk EXCEPT ![filename] =
                          [exists |-> TRUE, chain |-> << >>, reset |-> TRUE]]
            /\ cal_pc' = Following(cal_pc)
    /\ UNCHANGED <<cal_args, inference, pool, cal_log>>
    /\ UNCHANGED NotCal

\* L182-193, the call: set_silent(False), the pool, the sampler on the
\* backend, run_mcmc(p0, niter).  emcee raises ValueError when niter is None
\* (the chain is stored) and when p0 is None on a backend without a chain.
run_mcmc ==
    /\ cal_pc = "run_mcmc"
    /\ ~cal.running
    /\ inference' = [inference EXCEPT !.silent = FALSE]
    /\ IF \/ cal.niter = Omitted
          \/ (cal.p0 = "None" /\ disk[cal.backend].chain = << >>)
       THEN /\ cal' = [cal EXCEPT !.sampler = "EnsembleSampler", !.error = "ValueError"]
            /\ cal_pc' = "error"
       ELSE /\ cal' = [cal EXCEPT !.sampler = "EnsembleSampler",
                                  !.wrote_to = cal.backend,
                                  !.running = TRUE,
                                  !.pending = 1 .. cal.nwalkers]
            /\ UNCHANGED cal_pc
    /\ UNCHANGED <<cal_args, disk, pool, cal_log>>
    /\ UNCHANGED NotCal

\* The pool sends a task to an idle worker: the callable is pickled with the
\* object of the parent as it is at this moment.
dispatch(w) ==
    /\ cal.running
    /\ ~pool[w].busy
    /\ \E t \in cal.pending :
         /\ pool' = [pool EXCEPT ![w] = [busy |-> TRUE, obj |-> inference, task |-> t]]
         /\ cal' = [cal EXCEPT !.pending = @ \ {t}]
    /\ UNCHANGED <<cal_args, cal_pc, disk, inference, cal_log>>
    /\ UNCHANGED NotCal

\* Worker w evaluates get_logloss_as_single_number on its copy and returns
\* the number; the model is saved if the copy says so.
get_logloss_as_single_number(w) ==
    /\ pool[w].busy
    /\ LET after == Evaluated(inference, pool[w].obj, w)
       IN  /\ inference' = after.parent
           /\ pool' = [pool EXCEPT ![w] = [busy |-> FALSE, obj |-> after.obj, task |-> 0]]
    /\ cal_log' = Append(cal_log, [ev |-> "get_logloss_as_single_number",
                                   save |-> pool[w].obj.save,
                                   seen |-> pool[w].obj.touched,
                                   by |-> w, at |-> cal_pc])
    /\ UNCHANGED <<cal_args, cal_pc, cal, disk>>
    /\ UNCHANGED NotCal

\* No task is waiting or running.
AllReturned == cal.pending = {} /\ \A w \in WorkerIds : ~pool[w].busy

\* L193, an iteration ends: the sampler stores it in its backend; after
\* niter iterations run_mcmc returns and the pool is closed.
run_mcmc_iteration ==
    /\ cal_pc = "run_mcmc"
    /\ cal.running
    /\ AllReturned
    /\ disk' = [disk EXCEPT ![cal.backend].chain = Append(@, "this")]
    /\ IF cal.iteration + 1 = cal.niter
       THEN /\ cal' = [cal EXCEPT !.iteration = @ + 1, !.running = FALSE]
            /\ cal_log' = Append(cal_log, [ev |-> "run_mcmc", save |-> inference.save])
            /\ cal_pc' = Following(cal_pc)
       ELSE /\ cal' = [cal EXCEPT !.iteration = @ + 1, !.pending = 1 .. cal.nwalkers]
            /\ UNCHANGED <<cal_log, cal_pc>>
    /\ UNCHANGED <<cal_args, inference, pool>>
    /\ UNCHANGED NotCal

\* L195-204: sampler is now the backend at filename, read only, and
\* plot_chains reads its chain; a backend that does not exist has none.
plot_chains ==
    /\ cal_pc = "plot_chains"
    /\ IF disk[filename].exists
       THEN /\ cal' = [cal EXCEPT !.sampler = "HDFBackend", !.read_from = filename]
            /\ cal_pc' = Following(cal_pc)
       ELSE /\ cal' = [cal EXCEPT !.sampler = "HDFBackend", !.read_from = filename,
                                  !.error = "AttributeError"]
            /\ cal_pc' = "error"
    /\ UNCHANGED <<cal_args, disk, inference, pool, cal_log>>
    /\ UNCHANGED NotCal

\* L207-208: the model_output directories are removed.
rmtree ==
    /\ cal_pc = "rmtree"
    /\ cal_log' = Append(cal_log, [ev |-> "rmtree", save |-> inference.save])
    /\ cal_pc' = Following(cal_pc)
    /\ UNCHANGED <<cal_args, cal, disk, inference, pool>>
    /\ UNCHANGED NotCal

\* L210-213: the nsamples best walkers of the last iteration of sampler;
\* -nsamples is a TypeError when nsamples is None.
select_samples ==
    /\ cal_pc = "samples"
    /\ IF cal.nsamples = Omitted
       THEN /\ cal' = [cal EXCEPT !.error = "TypeError"]
            /\ cal_pc' = "error"
       ELSE /\ cal' = [cal EXCEPT !.samples =
                          IF cal.nsamples < cal.nwalkers THEN cal.nsamples ELSE cal.nwalkers]
            /\ cal_pc' = Following(cal_pc)
    /\ UNCHANGED <<cal_args, disk, inference, pool, cal_log>>
    /\ UNCHANGED NotCal

\* L214: gempyor_inference.set_save(True), in the parent process.
set_save ==
    /\ cal_pc = "set_save"
    /\ inference' = [inference EXCEPT !.save = TRUE]
    /\ cal_log' = Append(cal_log, [ev |-> "set_save", save |-> TRUE])
    /\ cal_pc' = Following(cal_pc)
    /\ UNCHANGED <<cal_args, cal, disk, pool>>
    /\ UNCHANGED NotCal

\* L215-219, the call: a new pool, one task for each selected sample.
starmap ==
    /\ cal_pc = "starmap"
    /\ ~cal.running
    /\ cal' = [cal EXCEPT !.running = TRUE, !.pending = 1 .. cal.samples]
    /\ UNCHANGED <<cal_args, cal_pc, disk, inference, pool, cal_log>>
    /\ UNCHANGED NotCal

\* L216-219, the return: every final evaluation has returned.
starmap_return ==
    /\ cal_pc = "starmap"
    /\ cal.running
    /\ AllReturned
    /\ cal' = [cal EXCEPT !.running = FALSE]
    /\ cal_pc' = Following(cal_pc)
    /\ UNCHANGED <<cal_args, disk, inference, pool, cal_log>>
    /\ UNCHANGED NotCal

CalNext ==
    \/ GempyorInference
    \/ perform_test_run
    \/ check_filename
    \/ open_backend
    \/ run_mcmc
    \/ \E w \in WorkerIds : dispatch(w)
    \/ \E w \in WorkerIds : get_logloss_as_single_number(w)
    \/ run_mcmc_iteration
    \/ plot_chains
    \/ rmtree
    \/ select_samples
    \/ set_save
    \/ starmap
    \/ starmap_return

InitCal == SeirIdle /\ NpiIdle /\ ParamIdle /\ InfoIdle /\ RunIdle /\ CalInit

SpecCal == InitCal /\ [][CalNext]_vars

(***************************************************************************)
(* Properties of calibrate.                                                *)
(***************************************************************************)

\* The evaluations of get_logloss_as_single_number recorded so far.
Evaluations ==
    { i \in DOMAIN cal_log : cal_log[i].ev = "get_logloss_as_single_number" }

\* The positions of the log at which event e is recorded.
LogOf(e) == { i \in DOMAIN cal_log : cal_log[i].ev = e }

\* C21: in the calibration fan-out every worker evaluates the log-likelihood
\* on its own copy of the inference object: what one worker's evaluation
\* writes is never read by another worker's evaluation nor held by the
\* object of the parent, under any interleaving of evaluations.
C21_WorkersOwnCopies ==
    cal_pc # "off" =>
        /\ inference.touched = {}
        /\ \A w \in WorkerIds : pool[w].obj.touched \subseteq {w}
        /\ \A i \in Evaluations : cal_log[i].seen = {}

\* C21's case: both workers have evaluated during run_mcmc, one of them is
\* evaluating again while the other holds the copy it has written.
C21_Witness ==
    /\ \E i, j \in Evaluations : cal_log[i].by = "w1" /\ cal_log[j].by = "w2"
    /\ pool["w1"].busy
    /\ pool["w2"].obj.touched = {"w2"}
    /\ cal_pc = "starmap"

\* C22: calibrate never resets or overwrites an existing sampler backend:
\* backend.reset is reached only when the file at filename did not exist and
\* neither --resume nor --resume_location was given; when the file exists
\* and --resume is off, calibrate returns without creating a sampler or
\* running any MCMC iteration.
C22_ExistingBackendKept ==
    cal_pc # "off" =>
        /\ \A l \in Locations :
             disk[l].reset => /\ l = filename
                              /\ ~cal_args.exists
                              /\ ~cal_args.resume
                              /\ cal_args.resume_location = "None"
        /\ \A l \in Locations :
             (l # filename \/ cal_args.exists) =>
                 (disk[l].chain # << >> /\ disk[l].chain[1] = "earlier")
        /\ ( /\ cal_args.exists
             /\ ~cal_args.resume
             /\ cal_pc \notin {"GempyorInference", "perform_test_run", "filename"} )
           => /\ cal_pc = "returned"
              /\ cal.sampler = "None"
              /\ cal.iteration = 0
              /\ Evaluations = {}
              /\ disk[filename] = EarlierBackend

\* C22's case: the file exists, --resume is off, no resume_location: after
\* the test run calibrate has returned.
C22_Witness ==
    /\ cal_pc = "returned"
    /\ cal_args.exists
    /\ ~cal_args.resume
    /\ cal_args.resume_location = "None"
    /\ LogOf("perform_test_run") # {}

\* C23: in every mode that runs the sampler (fresh start, --resume,
\* --resume_location) the backend that post-processing reads afterwards is
\* the backend the sampler wrote its chain to during this invocation.
C23_ReadsWhatWasWritten ==
    (cal_pc # "off" /\ cal.read_from # "None") =>
        /\ cal.read_from = cal.wrote_to
        /\ cal_pc # "error" =>
             disk[cal.read_from].chain[Len(disk[cal.read_from].chain)] = "this"

\* C24: each of --nwalkers, --niterations and --nsamples is an optional
\* override of a configuration value: when the option is omitted, calibrate
\* obtains the value from the config and runs the MCMC and the final
\* sampling to completion without error.
C24_OptionsDefaultToConfig ==
    (cal_pc \notin {"off", "GempyorInference"}) =>
        /\ cal_args.nwalkers = Omitted => cal.nwalkers = ConfigNslots
        /\ cal_args.niter = Omitted => cal.niter # Omitted
        /\ cal_args.nsamples = Omitted => cal.nsamples # Omitted
        /\ Omitted \in {cal_args.nwalkers, cal_args.niter, cal_args.nsamples}
             => cal.error \notin {"ValueError", "TypeError"}

\* C25: model outputs are saved only by the final sampling evaluations:
\* saving is disabled during the test run and every MCMC evaluation, the
\* model_output directories are removed only after run_mcmc has returned,
\* and set_save(True) happens after that removal and before the first final
\* evaluation is dispatched.
C25_SavedOnlyAtTheEnd ==
    cal_pc # "off" =>
        /\ \A i \in LogOf("perform_test_run") : ~cal_log[i].save
        /\ \A i \in Evaluations :
             /\ cal_log[i].at \in {"run_mcmc", "starmap"}
             /\ cal_log[i].save <=> (cal_log[i].at = "starmap")
             /\ cal_log[i].at = "starmap" => \E j \in LogOf("set_save") : j < i
        /\ \A i \in LogOf("rmtree") : \E j \in LogOf("run_mcmc") : j < i
        /\ \A i \in LogOf("set_save") : \E j \in LogOf("rmtree") : j < i
        /\ \A w \in WorkerIds :
             (pool[w].busy /\ cal_pc = "starmap") => LogOf("set_save") # {}

\* C25's case: a whole invocation: evaluations without saving during
\* run_mcmc, then rmtree, set_save and two final evaluations that save.
C25_Witness ==
    /\ cal_pc = "done"
    /\ \E i \in Evaluations : cal_log[i].at = "run_mcmc" /\ ~cal_log[i].save
    /\ \E i, j \in Evaluations :
          i # j /\ cal_log[i].at = "starmap" /\ cal_log[j].at = "starmap"
          /\ cal_log[i].save /\ cal_log[j].save
    /\ LogOf("rmtree") # {}

====
